---- MODULE Spec2Model ----
(***************************************************************************)
(* A model of open-moniker-svc's moniker core: the moniker grammar         *)
(* parser/serializer (moniker/parser.py), the path algebra and the Moniker *)
(* value type (moniker/types.py).                                          *)
(*                                                                         *)
(* A Python str is a sequence of one-character strings.  An Optional       *)
(* value is a sequence of length at most one: <<>> is None and <<x>> is    *)
(* the value x, so None, "" (<< <<>> >>) and "a" stay distinct.  A Python  *)
(* index i (find/rfind, -1 when absent) is carried as i+1 (0 when absent), *)
(* which keeps every comparison between two indices as in the source.      *)
(***************************************************************************)
EXTENDS Integers, Sequences, FiniteSets, TLC

\* ------------------------------------------------------------------------
\* Bounds of the model
\* ------------------------------------------------------------------------

\* Longest generated moniker body (the text between scheme and query).
MaxBody == 4

\* ------------------------------------------------------------------------
\* Characters and Python str primitives
\* ------------------------------------------------------------------------

Lower == {"a","b","c","d","e","f","g","h","i","j","k","l","m",
          "n","o","p","q","r","s","t","u","v","w","x","y","z"}

Upper == {"A","B","C","D","E","F","G","H","I","J","K","L","M",
          "N","O","P","Q","R","S","T","U","V","W","X","Y","Z"}

Digits == {"0","1","2","3","4","5","6","7","8","9"}

\* str.strip() with no argument strips these.
Whitespace == {" ", "\n", "\t", "\r"}

None == <<>>

Some(x) == <<x>>

\* s.find(c) + 1
Find(s, c) ==
  IF \E i \in 1..Len(s) : s[i] = c
  THEN CHOOSE i \in 1..Len(s) : s[i] = c /\ \A j \in 1..(i-1) : s[j] # c
  ELSE 0

\* s.rfind(c) + 1
RFind(s, c) ==
  IF \E i \in 1..Len(s) : s[i] = c
  THEN CHOOSE i \in 1..Len(s) : s[i] = c /\ \A j \in (i+1)..Len(s) : s[j] # c
  ELSE 0

IsSubAt(s, sub, i) ==
  /\ i >= 1
  /\ i + Len(sub) - 1 <= Len(s)
  /\ SubSeq(s, i, i + Len(sub) - 1) = sub

\* s.find(sub) + 1
FindSub(s, sub) ==
  IF \E i \in 1..(Len(s)+1) : IsSubAt(s, sub, i)
  THEN CHOOSE i \in 1..(Len(s)+1) :
         IsSubAt(s, sub, i) /\ \A j \in 1..(i-1) : ~IsSubAt(s, sub, j)
  ELSE 0

\* s.rfind(sub) + 1
RFindSub(s, sub) ==
  IF \E i \in 1..(Len(s)+1) : IsSubAt(s, sub, i)
  THEN CHOOSE i \in 1..(Len(s)+1) :
         IsSubAt(s, sub, i) /\ \A j \in (i+1)..(Len(s)+1) : ~IsSubAt(s, sub, j)
  ELSE 0

\* sub in s
Contains(s, sub) == FindSub(s, sub) # 0

StartsWith(s, p) == IsSubAt(s, p, 1)

\* s[i:] for a Python index i, given as i+1
From(s, i) == SubSeq(s, i, Len(s))

\* s[:i] for a Python index i, given as i+1
Upto(s, i) == SubSeq(s, 1, i - 1)

\* s.strip(chars)
Strip(s, chars) ==
  IF \A i \in 1..Len(s) : s[i] \in chars
  THEN <<>>
  ELSE LET lo == CHOOSE i \in 1..Len(s) :
                   s[i] \notin chars /\ \A j \in 1..(i-1) : s[j] \in chars
           hi == CHOOSE i \in 1..Len(s) :
                   s[i] \notin chars /\ \A j \in (i+1)..Len(s) : s[j] \in chars
       IN  SubSeq(s, lo, hi)

\* s.split(c): never empty, [""] for the empty string
RECURSIVE Split(_, _)
Split(s, c) ==
  LET i == Find(s, c)
  IN  IF i = 0 THEN <<s>>
      ELSE <<Upto(s, i)>> \o Split(From(s, i + 1), c)

\* c.join(parts)
RECURSIVE Join(_, _)
Join(parts, c) ==
  IF Len(parts) = 0 THEN <<>>
  ELSE IF Len(parts) = 1 THEN parts[1]
  ELSE parts[1] \o <<c>> \o Join(Tail(parts), c)

\* s.replace(c, d) for single characters
Replace(s, c, d) == [i \in 1..Len(s) |-> IF s[i] = c THEN d ELSE s[i]]

\* s with every character of chars removed
Remove(s, chars) == SelectSeq(s, LAMBDA ch : ch \notin chars)

\* Python's '$' matches at the end of the string and also just before a
\* newline that is the last character: a pattern ^X$ matches s exactly when
\* X matches all of DollarTrim(s) (no X here can match a newline).
DollarTrim(s) ==
  IF Len(s) > 0 /\ s[Len(s)] = "\n" THEN SubSeq(s, 1, Len(s) - 1) ELSE s

DigitVal(c) ==
  CASE c = "0" -> 0 [] c = "1" -> 1 [] c = "2" -> 2 [] c = "3" -> 3
    [] c = "4" -> 4 [] c = "5" -> 5 [] c = "6" -> 6 [] c = "7" -> 7
    [] c = "8" -> 8 [] c = "9" -> 9

DigitChar(d) ==
  CASE d = 0 -> "0" [] d = 1 -> "1" [] d = 2 -> "2" [] d = 3 -> "3"
    [] d = 4 -> "4" [] d = 5 -> "5" [] d = 6 -> "6" [] d = 7 -> "7"
    [] d = 8 -> "8" [] d = 9 -> "9"

\* int(s) for a non-empty string of digits
RECURSIVE ParseInt(_)
ParseInt(s) ==
  IF Len(s) = 0 THEN 0
  ELSE 10 * ParseInt(SubSeq(s, 1, Len(s) - 1)) + DigitVal(s[Len(s)])

\* str(n) for an int
RECURSIVE IntToStr(_)
IntToStr(n) ==
  IF n < 0 THEN <<"-">> \o IntToStr(0 - n)
  ELSE IF n < 10 THEN <<DigitChar(n)>>
  ELSE IntToStr(n \div 10) \o <<DigitChar(n % 10)>>

\* ------------------------------------------------------------------------
\* moniker/types.py: MonikerPath, QueryParams, Moniker
\* ------------------------------------------------------------------------

\* A MonikerPath is its tuple of segments; MonikerPath.root() is the empty one.
root == <<>>

\* QueryParams is an insertion-ordered dict: a sequence of <<key, value>>
\* pairs with distinct keys.
NoParams == <<>>

Moniker(path, namespace, version, revision, params) ==
  [path |-> path, namespace |-> namespace, version |-> version,
   revision |-> revision, params |-> params]

\* MonikerPath.__str__
PathStr(segments) == Join(segments, "/")

\* "&".join(f"{k}={v}" for k, v in params.items())
RECURSIVE ParamStr(_)
ParamStr(params) ==
  IF Len(params) = 0 THEN <<>>
  ELSE LET kv == params[1][1] \o <<"=">> \o params[1][2]
       IN  IF Len(params) = 1 THEN kv
           ELSE kv \o <<"&">> \o ParamStr(Tail(params))

SchemePrefix == <<"m","o","n","i","k","e","r",":","/","/">>

\* A str is truthy when it is neither None nor empty.
Truthy(opt) == opt # None /\ opt[1] # <<>>

\* Moniker.__str__
MonikerStr(m) ==
  LET ns   == IF Truthy(m.namespace) THEN m.namespace[1] \o <<"@">> ELSE <<>>
      ver  == IF Truthy(m.version) THEN <<"@">> \o m.version[1] ELSE <<>>
      rev  == IF m.revision # None
              THEN <<"/","v">> \o IntToStr(m.revision[1]) ELSE <<>>
      base == ns \o PathStr(m.path) \o ver \o rev
  IN  IF Len(m.params) > 0
      THEN SchemePrefix \o base \o <<"?">> \o ParamStr(m.params)
      ELSE SchemePrefix \o base

\* Moniker.__eq__ (dataclass): field for field; QueryParams compares its
\* dicts, which ignores the order of the keys.
MonikerEq(m1, m2) ==
  /\ m1.path = m2.path
  /\ m1.namespace = m2.namespace
  /\ m1.version = m2.version
  /\ m1.revision = m2.revision
  /\ {m1.params[i] : i \in 1..Len(m1.params)} = {m2.params[i] : i \in 1..Len(m2.params)}

\* MonikerPath.domain
domain(segments) == IF Len(segments) > 0 THEN Some(segments[1]) ELSE None

\* MonikerPath.parent
parent(segments) ==
  IF Len(segments) <= 1 THEN None
  ELSE Some(SubSeq(segments, 1, Len(segments) - 1))

\* MonikerPath.leaf
leaf(segments) == IF Len(segments) > 0 THEN Some(segments[Len(segments)]) ELSE None

\* A faulty range(1, len(segments) + 1): the path itself is listed too.
ancestors_WithSelf(segments) == [i \in 1..Len(segments) |-> SubSeq(segments, 1, i)]

\* A faulty range(2, len(segments)): the top-level ancestor is left out.
ancestors_NoTop(segments) ==
  [i \in 1..(Len(segments) - 2) |-> SubSeq(segments, 1, i + 1)]

\* MonikerPath.ancestors: segments[:i] for i in range(1, len(segments))
ancestors(segments) == [i \in 1..(Len(segments) - 1) |-> SubSeq(segments, 1, i)]

\* MonikerPath.child: the segment is appended as given.
child(segments, segment) == Append(segments, segment)

\* A faulty line 64 with > for >=: a path becomes its own ancestor.
is_ancestor_of_NonStrict(segments, other) ==
  IF Len(segments) > Len(other) THEN FALSE
  ELSE SubSeq(other, 1, Len(segments)) = segments

\* MonikerPath.is_ancestor_of
is_ancestor_of(segments, other) ==
  IF Len(segments) >= Len(other) THEN FALSE
  ELSE SubSeq(other, 1, Len(segments)) = segments

\* MonikerPath.is_descendant_of
is_descendant_of(segments, other) == is_ancestor_of(other, segments)

\* MonikerPath.from_string: the empty pieces are filtered out, nothing is
\* validated and nothing is raised.
from_string(path_str) ==
  IF Len(path_str) = 0 \/ path_str = <<"/">> THEN root
  ELSE SelectSeq(Split(Strip(path_str, {"/"}), "/"), LAMBDA s : Len(s) > 0)

\* ------------------------------------------------------------------------
\* moniker/parser.py: the grammar checks
\* ------------------------------------------------------------------------

SEGMENT_MAX_LEN == 128

NAMESPACE_MAX_LEN == 64

\* SEGMENT_PATTERN = ^[a-zA-Z0-9][a-zA-Z0-9_.\-]*$
SEGMENT_PATTERN(s) ==
  LET t == DollarTrim(s)
  IN  /\ Len(t) >= 1
      /\ t[1] \in Lower \cup Upper \cup Digits
      /\ \A i \in 2..Len(t) : t[i] \in Lower \cup Upper \cup Digits \cup {"_", ".", "-"}

\* NAMESPACE_PATTERN = ^[a-zA-Z][a-zA-Z0-9_\-]*$
NAMESPACE_PATTERN(s) ==
  LET t == DollarTrim(s)
  IN  /\ Len(t) >= 1
      /\ t[1] \in Lower \cup Upper
      /\ \A i \in 2..Len(t) : t[i] \in Lower \cup Upper \cup Digits \cup {"_", "-"}

\* VERSION_PATTERN = ^[a-zA-Z0-9]+$
VERSION_PATTERN(s) ==
  LET t == DollarTrim(s)
  IN  /\ Len(t) >= 1
      /\ \A i \in 1..Len(t) : t[i] \in Lower \cup Upper \cup Digits

validate_segment(segment) ==
  IF Len(segment) = 0 THEN FALSE
  ELSE IF Len(segment) > SEGMENT_MAX_LEN THEN FALSE
  ELSE SEGMENT_PATTERN(segment)

validate_namespace(namespace) ==
  IF Len(namespace) = 0 THEN FALSE
  ELSE IF Len(namespace) > NAMESPACE_MAX_LEN THEN FALSE
  ELSE NAMESPACE_PATTERN(namespace)

\* ------------------------------------------------------------------------
\* Results: a returned value, or the exception raised
\* ------------------------------------------------------------------------

NoMoniker == Moniker(root, None, None, None, NoParams)

Ok(m) == [ok |-> TRUE, err |-> "", m |-> m]

\* err says which raise statement fired; all but "ValueError" are
\* MonikerParseError.
Raise(kind) == [ok |-> FALSE, err |-> kind, m |-> NoMoniker]

ParseErrors == {"EmptyMoniker", "InvalidScheme", "InvalidNamespace",
                "InvalidVersion", "InvalidSegment"}

\* ------------------------------------------------------------------------
\* moniker/parser.py: parse_path
\* ------------------------------------------------------------------------

PathOk(segments) == [ok |-> TRUE, segments |-> segments]

PathRaise == [ok |-> FALSE, segments |-> root]

\* The loop of lines 72-79: the first invalid segment raises.
SegmentsValid(segments) == \A i \in 1..Len(segments) : validate_segment(segments[i])

parse_path(path_str, validate) ==
  IF Len(path_str) = 0 \/ path_str = <<"/">> THEN PathOk(root)
  ELSE LET clean == Strip(path_str, {"/"})
       IN  IF Len(clean) = 0 THEN PathOk(root)
           ELSE LET segments == Split(clean, "/")
                IN  IF validate /\ ~SegmentsValid(segments) THEN PathRaise
                    ELSE PathOk(segments)

\* ------------------------------------------------------------------------
\* urllib.parse as parse_moniker uses it (CPython 3.11)
\* ------------------------------------------------------------------------

\* First position of any of '/', '?', '#' (urllib's _splitnetloc), or
\* Len(s)+1 when there is none.
NetlocEnd(s) ==
  IF \E i \in 1..Len(s) : s[i] \in {"/", "?", "#"}
  THEN CHOOSE i \in 1..Len(s) :
         s[i] \in {"/", "?", "#"} /\ \A j \in 1..(i-1) : s[j] \notin {"/", "?", "#"}
  ELSE Len(s) + 1

\* urlparse(moniker_str) for a string that starts with "moniker://":
\* tab, CR and LF are removed, the netloc runs to the first of "/?#", the
\* fragment is cut off at the first '#', then the query at the first '?'.
\* A netloc with a bracket raises ValueError (unmatched, or not holding an
\* IP literal; a bracketed IP literal is outside the modelled inputs).
urlparse(moniker_str) ==
  LET url    == From(Remove(moniker_str, {"\t", "\r", "\n"}), Len(SchemePrefix) + 1)
      cut    == NetlocEnd(url)
      netloc == Upto(url, cut)
      rest   == From(url, cut)
      hash   == Find(rest, "#")
      nofrag == IF hash # 0 THEN Upto(rest, hash) ELSE rest
      qm     == Find(nofrag, "?")
  IN  [ok     |-> Find(netloc, "[") = 0 /\ Find(netloc, "]") = 0,
       netloc |-> netloc,
       path   |-> IF qm # 0 THEN Upto(nofrag, qm) ELSE nofrag,
       query  |-> IF qm # 0 THEN From(nofrag, qm + 1) ELSE <<>>]

Hex == <<"2","6">> :> "&" @@ <<"3","D">> :> "=" @@ <<"2","5">> :> "%" @@
       <<"2","F">> :> "/" @@ <<"4","0">> :> "@" @@ <<"2","0">> :> " " @@
       <<"2","B">> :> "+" @@ <<"3","F">> :> "?" @@ <<"2","3">> :> "#"

\* urllib.parse.unquote: %XX becomes the character it encodes (the escapes
\* of Hex are modelled); a '%' not followed by an escape stays as it is.
RECURSIVE unquote(_)
unquote(s) ==
  IF Len(s) = 0 THEN <<>>
  ELSE IF s[1] = "%" /\ Len(s) >= 3 /\ SubSeq(s, 2, 3) \in DOMAIN Hex
       THEN <<Hex[SubSeq(s, 2, 3)]>> \o unquote(From(s, 4))
       ELSE <<s[1]>> \o unquote(Tail(s))

\* One name=value field of parse_qsl(keep_blank_values=True): split at the
\* first '=', a field without '=' has the blank value; '+' is a space.
QsField(name_value) ==
  LET eq == Find(name_value, "=")
      nv == IF eq = 0 THEN <<name_value, <<>>>>
            ELSE <<Upto(name_value, eq), From(name_value, eq + 1)>>
  IN  <<unquote(Replace(nv[1], "+", " ")), unquote(Replace(nv[2], "+", " "))>>

\* parse_qsl: the fields in order, empty fields skipped.
parse_qsl(qs) ==
  IF Len(qs) = 0 THEN <<>>
  ELSE LET fields == SelectSeq(Split(qs, "&"), LAMBDA f : Len(f) > 0)
       IN  [i \in 1..Len(fields) |-> QsField(fields[i])]

\* A faulty reading of the value list: values[-1], the last value per key.
FirstValues_LastWins(pairs) ==
  LET keep == {i \in 1..Len(pairs) : \A j \in 1..(i-1) : pairs[j][1] # pairs[i][1]}
      nth[k \in 0..Len(pairs)] ==
        IF k = 0 THEN 0
        ELSE CHOOSE i \in keep : i > nth[k-1] /\ \A j \in keep : j > nth[k-1] => i <= j
      lastOf(i) == CHOOSE j \in 1..Len(pairs) :
                     /\ pairs[j][1] = pairs[i][1]
                     /\ \A l \in (j+1)..Len(pairs) : pairs[l][1] # pairs[i][1]
  IN  [k \in 1..Cardinality(keep) |-> <<pairs[nth[k]][1], pairs[lastOf(nth[k])][2]>>]

\* parse_qs groups the values by key, keys in order of first occurrence;
\* lines 192-194 keep values[0]: the pairs whose key did not occur before.
FirstValues(pairs) ==
  LET first(i) == \A j \in 1..(i-1) : pairs[j][1] # pairs[i][1]
      keep == {i \in 1..Len(pairs) : first(i)}
      nth[k \in 0..Len(pairs)] ==
        IF k = 0 THEN 0
        ELSE CHOOSE i \in keep : i > nth[k-1] /\ \A j \in keep : j > nth[k-1] => i <= j
  IN  [k \in 1..Cardinality(keep) |-> pairs[nth[k]]]

\* Lines 187-194
ParseParams(query_str) ==
  IF Len(query_str) = 0 THEN NoParams
  ELSE FirstValues(parse_qsl(query_str))

\* ------------------------------------------------------------------------
\* moniker/parser.py: parse_moniker, step by step
\* ------------------------------------------------------------------------

\* Faulty lines 113-118 that test for "://" first: "moniker://" is refused too.
SplitScheme_SchemeTestFirst(moniker_str0) ==
  IF Contains(Strip(moniker_str0, Whitespace), <<":", "/", "/">>)
  THEN [err |-> "InvalidScheme", body |-> <<>>, query |-> <<>>]
  ELSE IF Find(Strip(moniker_str0, Whitespace), "?") # 0
  THEN [err   |-> "",
        body  |-> Upto(Strip(moniker_str0, Whitespace),
                       Find(Strip(moniker_str0, Whitespace), "?")),
        query |-> From(Strip(moniker_str0, Whitespace),
                       Find(Strip(moniker_str0, Whitespace), "?") + 1)]
  ELSE [err |-> "", body |-> Strip(moniker_str0, Whitespace), query |-> <<>>]

\* Lines 110-128: strip, then the scheme.  err is "" when nothing is raised.
SplitScheme(moniker_str0) ==
  LET moniker_str == Strip(moniker_str0, Whitespace)
  IN  IF StartsWith(moniker_str, SchemePrefix)
      THEN LET parsed == urlparse(moniker_str)
           IN  [err   |-> IF parsed.ok THEN "" ELSE "ValueError",
                body  |-> parsed.netloc \o parsed.path,
                query |-> parsed.query]
      ELSE IF Contains(moniker_str, <<":", "/", "/">>)
      THEN [err |-> "InvalidScheme", body |-> <<>>, query |-> <<>>]
      ELSE LET qm == Find(moniker_str, "?")
           IN  IF qm # 0
               THEN [err |-> "", body |-> Upto(moniker_str, qm),
                     query |-> From(moniker_str, qm + 1)]
               ELSE [err |-> "", body |-> moniker_str, query |-> <<>>]

\* A faulty line 139 that forgets the first '/': any '@' is a namespace prefix.
IsNamespacePrefix_AnyAt(first_at, first_slash) == first_at # 0

\* Line 139: the first '@' is a namespace prefix.
IsNamespacePrefix(first_at, first_slash) ==
  first_at # 0 /\ (first_slash = 0 \/ first_at < first_slash)

\* Lines 131-149
SplitNamespace(body, validate) ==
  LET first_at    == Find(body, "@")
      first_slash == Find(body, "/")
  IN  IF IsNamespacePrefix(first_at, first_slash)
      THEN LET namespace == Upto(body, first_at)
           IN  [err       |-> IF validate /\ ~validate_namespace(namespace)
                              THEN "InvalidNamespace" ELSE "",
                namespace |-> Some(namespace),
                remaining |-> From(body, first_at + 1)]
      ELSE [err |-> "", namespace |-> None, remaining |-> body]

\* Number of leading digits of s
RECURSIVE DigitRun(_)
DigitRun(s) ==
  IF Len(s) > 0 /\ s[1] \in Digits THEN 1 + DigitRun(Tail(s)) ELSE 0

\* Line 160: re.match(r"^(\d+)(?:$|(?=\?))", potential_rev): digits, then
\* the end of the string ('$': also a final newline) or a '?'.
RevMatch(potential_rev) ==
  LET k == DigitRun(potential_rev)
  IN  /\ k >= 1
      /\ \/ k = Len(potential_rev)
         \/ (k = Len(potential_rev) - 1 /\ potential_rev[k + 1] = "\n")
         \/ potential_rev[k + 1] = "?"

\* Lines 152-163: rsplit("/v", 1) at the last "/v".
SplitRevision(remaining) ==
  LET cut == RFindSub(remaining, <<"/", "v">>)
  IN  IF cut # 0 /\ RevMatch(From(remaining, cut + 2))
      THEN [revision  |-> Some(ParseInt(SubSeq(remaining, cut + 2,
                                   cut + 1 + DigitRun(From(remaining, cut + 2))))),
            remaining |-> Upto(remaining, cut)]
      ELSE [revision |-> None, remaining |-> remaining]

\* A faulty line 173 that forgets the last '/': any last '@' is a version.
IsVersionSuffix_AnyAt(at_idx, last_slash_idx) == TRUE

\* Line 173: the last '@' sits on the last segment.
IsVersionSuffix(at_idx, last_slash_idx) == at_idx > last_slash_idx

\* A faulty line 178 that checks the version whatever the validate flag says.
VersionRejected_IgnoreFlag(validate, version) ==
  Len(version) > 0 /\ ~VERSION_PATTERN(version)

\* Line 178: the version check is skipped for an empty version.
VersionRejected(validate, version) ==
  validate /\ Len(version) > 0 /\ ~VERSION_PATTERN(version)

\* Lines 166-182
SplitVersion(remaining, validate) ==
  LET last_slash_idx == RFind(remaining, "/")
      at_idx         == RFind(remaining, "@")
  IN  IF at_idx # 0 /\ IsVersionSuffix(at_idx, last_slash_idx)
      THEN LET version == From(remaining, at_idx + 1)
           IN  [err       |-> IF VersionRejected(validate, version)
                              THEN "InvalidVersion" ELSE "",
                version   |-> Some(version),
                remaining |-> Upto(remaining, at_idx)]
      ELSE [err |-> "", version |-> None, remaining |-> remaining]

\* Line 107: "if not moniker_str", before the strip.
IsEmptyInput(moniker_str) == Len(moniker_str) = 0

\* Lines 184-202: the path, the params, the Moniker.
AfterVersion(sch, ns, rev, ver, path) ==
  IF ~path.ok THEN Raise("InvalidSegment")
  ELSE Ok(Moniker(path.segments, ns.namespace, ver.version, rev.revision,
                  ParseParams(sch.query)))

\* Lines 165-185
AfterRevision(sch, ns, rev, ver, validate) ==
  IF ver.err # "" THEN Raise(ver.err)
  ELSE AfterVersion(sch, ns, rev, ver, parse_path(ver.remaining, validate))

\* Lines 151-163
AfterNamespace(sch, ns, rev, validate) ==
  AfterRevision(sch, ns, rev, SplitVersion(rev.remaining, validate), validate)

\* Lines 130-149
AfterScheme(sch, ns, validate) ==
  IF ns.err # "" THEN Raise(ns.err)
  ELSE AfterNamespace(sch, ns, SplitRevision(ns.remaining), validate)

\* Lines 110-128
AfterEmptyCheck(sch, validate) ==
  IF sch.err # "" THEN Raise(sch.err)
  ELSE AfterScheme(sch, SplitNamespace(sch.body, validate), validate)

parse_moniker(moniker_str, validate) ==
  IF IsEmptyInput(moniker_str) THEN Raise("EmptyMoniker")
  ELSE AfterEmptyCheck(SplitScheme(moniker_str), validate)

\* Line 212: str(m) of the parsed Moniker; an exception passes through.
NormalizeResult(r) ==
  [ok |-> r.ok, err |-> r.err, str |-> IF r.ok THEN MonikerStr(r.m) ELSE <<>>]

\* normalize_moniker: the canonical string, or the exception of the parse.
normalize_moniker(moniker_str) == NormalizeResult(parse_moniker(moniker_str, TRUE))

\* build_moniker: only the path is parsed (and validated); namespace,
\* version, revision and params are stored as given.
BuildResult(p, namespace, version, revision, params) ==
  IF ~p.ok THEN Raise("InvalidSegment")
  ELSE Ok(Moniker(p.segments, namespace, version, revision, params))

build_moniker(path, namespace, version, revision, params) ==
  BuildResult(parse_path(path, TRUE), namespace, version, revision, params)

\* ------------------------------------------------------------------------
\* catalog/types.py: Ownership, ResolvedOwnership
\* ------------------------------------------------------------------------

\* The six slots of Ownership, in declaration order.
OwnershipFields == <<"accountable_owner", "data_specialist", "support_channel",
                     "adop", "ads", "adal">>

\* Ownership(): every slot defaults to None.
Ownership(accountable_owner, data_specialist, support_channel, adop, ads, adal) ==
  [accountable_owner |-> accountable_owner, data_specialist |-> data_specialist,
   support_channel |-> support_channel, adop |-> adop, ads |-> ads, adal |-> adal]

NoOwnership == Ownership(None, None, None, None, None, None)

\* Python's "a or b" on two optional strings: a when it is truthy, else b.
OrElse(a, b) == IF Truthy(a) THEN a ELSE b

\* A faulty merge that lets the parent's value win.
merge_with_parent_ParentWins(self, parent_own) ==
  [f \in DOMAIN self |-> IF Truthy(parent_own[f]) THEN parent_own[f] ELSE self[f]]

\* Ownership.merge_with_parent: a new Ownership, slot by slot "self or parent".
merge_with_parent(self, parent_own) ==
  Ownership(OrElse(self.accountable_owner, parent_own.accountable_owner),
            OrElse(self.data_specialist, parent_own.data_specialist),
            OrElse(self.support_channel, parent_own.support_channel),
            OrElse(self.adop, parent_own.adop),
            OrElse(self.ads, parent_own.ads),
            OrElse(self.adal, parent_own.adal))

\* ResolvedOwnership(): each slot with the path where it was defined.
ResolvedOwnership(value, source) ==
  [accountable_owner |-> value.accountable_owner,
   accountable_owner_source |-> source.accountable_owner,
   data_specialist |-> value.data_specialist,
   data_specialist_source |-> source.data_specialist,
   support_channel |-> value.support_channel,
   support_channel_source |-> source.support_channel,
   adop |-> value.adop, adop_source |-> source.adop,
   ads |-> value.ads, ads_source |-> source.ads,
   adal |-> value.adal, adal_source |-> source.adal]

\* ResolvedOwnership.ownership: the values without the provenance.
ownership(res) ==
  Ownership(res.accountable_owner, res.data_specialist, res.support_channel,
            res.adop, res.ads, res.adal)

\* ------------------------------------------------------------------------
\* Ownership resolution (specification section 4.4; the resolver itself is
\* not among the sources, which hold its result type ResolvedOwnership)
\* ------------------------------------------------------------------------

\* node_at(path): the Ownership of the catalog node at path, or absent.
node_at(cat, path) == IF path \in DOMAIN cat THEN cat[path] ELSE None

\* The path itself, then its ancestors() from the parent up (child to root).
AncestorChain(path) ==
  LET anc == ancestors(path)
  IN  <<path>> \o [i \in 1..Len(anc) |-> anc[Len(anc) - i + 1]]

\* The places of the chain whose node has slot f set (a non-empty value).
DefinedAt(cat, chain, f) ==
  {i \in 1..Len(chain) :
     /\ node_at(cat, chain[i]) # None
     /\ Truthy(node_at(cat, chain[i])[1][f])}

\* The first such place, or 0.
NearestAt(cat, chain, f) ==
  IF DefinedAt(cat, chain, f) = {} THEN 0
  ELSE CHOOSE i \in DefinedAt(cat, chain, f) :
         \A j \in DefinedAt(cat, chain, f) : i <= j

ResolvedValue(cat, chain, f) ==
  IF NearestAt(cat, chain, f) = 0 THEN None
  ELSE node_at(cat, chain[NearestAt(cat, chain, f)])[1][f]

ResolvedSource(cat, chain, f) ==
  IF NearestAt(cat, chain, f) = 0 THEN None
  ELSE Some(PathStr(chain[NearestAt(cat, chain, f)]))

\* resolve_ownership(path, node_at): six independent scans of one chain.
resolve_ownership(path, cat) ==
  ResolvedOwnership(
    [f \in {OwnershipFields[i] : i \in 1..Len(OwnershipFields)} |->
       ResolvedValue(cat, AncestorChain(path), f)],
    [f \in {OwnershipFields[i] : i \in 1..Len(OwnershipFields)} |->
       ResolvedSource(cat, AncestorChain(path), f)])

\* The Ownership of the node at path, none of its slots set when the node
\* is absent.
OwnershipAt(cat, path) ==
  IF node_at(cat, path) = None THEN NoOwnership ELSE node_at(cat, path)[1]

\* acc = node; for each ancestor from the parent up:
\*   acc = acc.merge_with_parent(ancestor)
RECURSIVE FoldUp(_, _, _)
FoldUp(acc, cat, chain) ==
  IF Len(chain) = 0 THEN acc
  ELSE FoldUp(merge_with_parent(acc, OwnershipAt(cat, chain[1])), cat, Tail(chain))

\* ------------------------------------------------------------------------
\* datetime.date, datetime.timedelta and calendar as dialect/rest.py uses
\* them (CPython 3.11)
\* ------------------------------------------------------------------------

MINYEAR == 1

MAXYEAR == 9999

\* date.max.toordinal()
MAXORDINAL == 3652059

\* The largest number of days a timedelta holds.
MAX_DELTA_DAYS == 999999999

Date(year, month, day) == [year |-> year, month |-> month, day |-> day]

\* calendar.isleap, datetime._is_leap
IsLeap(year) == year % 4 = 0 /\ (year % 100 # 0 \/ year % 400 = 0)

\* datetime._DAYS_IN_MONTH
DAYS_IN_MONTH == <<31, 28, 31, 30, 31, 30, 31, 31, 30, 31, 30, 31>>

\* datetime._DAYS_BEFORE_MONTH
DAYS_BEFORE_MONTH == <<0, 31, 59, 90, 120, 151, 181, 212, 243, 273, 304, 334>>

\* datetime._days_in_month
DaysInMonth(year, month) ==
  IF month = 2 /\ IsLeap(year) THEN 29 ELSE DAYS_IN_MONTH[month]

\* calendar.monthrange(year, month)[1]: the weekday is asked for the year
\* 2000 + year % 400 when year is outside MINYEAR..MAXYEAR, the length of
\* the month for year itself.
MonthRangeDays(year, month) == DaysInMonth(year, month)

\* datetime._days_before_year
DaysBeforeYear(year) ==
  (year - 1) * 365 + (year - 1) \div 4 - (year - 1) \div 100 + (year - 1) \div 400

\* datetime._days_before_month
DaysBeforeMonth(year, month) ==
  DAYS_BEFORE_MONTH[month] + (IF month > 2 /\ IsLeap(year) THEN 1 ELSE 0)

\* date.toordinal (datetime._ymd2ord)
ToOrdinal(d) == DaysBeforeYear(d.year) + DaysBeforeMonth(d.year, d.month) + d.day

\* The tail of datetime._ord2ymd: month is the estimate (n + 50) >> 5, one
\* too large when the days before it exceed n.
Ord2YmdMonth(year, leapyear, month, n) ==
  IF DAYS_BEFORE_MONTH[month] + (IF month > 2 /\ leapyear THEN 1 ELSE 0) > n
  THEN Date(year, month - 1,
            n - (DAYS_BEFORE_MONTH[month - 1]
                 + (IF month - 1 > 2 /\ leapyear THEN 1 ELSE 0)) + 1)
  ELSE Date(year, month,
            n - (DAYS_BEFORE_MONTH[month]
                 + (IF month > 2 /\ leapyear THEN 1 ELSE 0)) + 1)

Ord2YmdYear(n400, n100, n4, n1, n) ==
  IF n1 = 4 \/ n100 = 4
  THEN Date(n400 * 400 + n100 * 100 + n4 * 4 + n1, 12, 31)
  ELSE Ord2YmdMonth(n400 * 400 + 1 + n100 * 100 + n4 * 4 + n1,
                    n1 = 3 /\ (n4 # 24 \/ n100 = 3),
                    (n + 50) \div 32, n)

Ord2Ymd4(n400, n100, n) == Ord2YmdYear(n400, n100, n \div 1461, (n % 1461) \div 365,
                                       (n % 1461) % 365)

Ord2Ymd100(n400, n) == Ord2Ymd4(n400, n \div 36524, n % 36524)

\* date.fromordinal (datetime._ord2ymd), for 1 <= n <= MAXORDINAL
FromOrdinal(n) == Ord2Ymd100((n - 1) \div 146097, (n - 1) % 146097)

\* "%0*d": n written with at least width digits
RECURSIVE ZeroPad(_, _)
ZeroPad(digits, width) ==
  IF Len(digits) >= width THEN digits ELSE ZeroPad(<<"0">> \o digits, width)

\* date.isoformat: "%04d-%02d-%02d"
IsoFormat(d) ==
  ZeroPad(IntToStr(d.year), 4) \o <<"-">> \o ZeroPad(IntToStr(d.month), 2)
  \o <<"-">> \o ZeroPad(IntToStr(d.day), 2)

\* What a dialect call returns (a str) or the exception it raises.
Returned(s) == [ok |-> TRUE, err |-> "", str |-> s]

Raised(kind) == [ok |-> FALSE, err |-> kind, str |-> <<>>]

\* date(year, month, day): ValueError outside the calendar.
MakeDate(year, month, day) ==
  IF /\ MINYEAR <= year /\ year <= MAXYEAR
     /\ 1 <= month /\ month <= 12
     /\ 1 <= day /\ day <= DaysInMonth(year, IF 1 <= month /\ month <= 12 THEN month ELSE 1)
  THEN [ok |-> TRUE, err |-> "", date |-> Date(year, month, day)]
  ELSE [ok |-> FALSE, err |-> "ValueError", date |-> Date(MINYEAR, 1, 1)]

\* today - timedelta(days=days): OverflowError when the timedelta cannot be
\* built or the result leaves date.min..date.max.
MinusDays(today, days) ==
  IF days > MAX_DELTA_DAYS \/ days < -MAX_DELTA_DAYS THEN Raised("OverflowError")
  ELSE IF ToOrdinal(today) - days < 1 \/ ToOrdinal(today) - days > MAXORDINAL
  THEN Raised("OverflowError")
  ELSE Returned(IsoFormat(FromOrdinal(ToOrdinal(today) - days)))

\* ------------------------------------------------------------------------
\* dateutil.relativedelta as dialect/rest.py uses it
\* ------------------------------------------------------------------------

Min(a, b) == IF a <= b THEN a ELSE b

\* relativedelta(years=, months=) after _fix(): months beyond 11 carry into
\* the years, keeping the sign.
FixedYears(years, months) ==
  IF months > 11 THEN years + months \div 12
  ELSE IF months < -11 THEN years - ((-months) \div 12)
  ELSE years

FixedMonths(months) ==
  IF months > 11 THEN months % 12
  ELSE IF months < -11 THEN -((-months) % 12)
  ELSE months

\* The last step of relativedelta.__add__: the day is cut to the length of
\* the month, then date.replace raises ValueError for a year out of range.
RelativeReplace(today, year, month) ==
  IF year < MINYEAR \/ year > MAXYEAR THEN Raised("ValueError")
  ELSE Returned(IsoFormat(Date(year, month,
                               Min(MonthRangeDays(year, month), today.day))))

\* relativedelta.__add__ for years and months already fixed.
RelativeAdd(today, years, months) ==
  IF today.month + months > 12
  THEN RelativeReplace(today, today.year + years + 1, today.month + months - 12)
  ELSE IF today.month + months < 1
  THEN RelativeReplace(today, today.year + years - 1, today.month + months + 12)
  ELSE RelativeReplace(today, today.year + years, today.month + months)

\* today - relativedelta(years=years, months=months): __rsub__ adds the
\* negated delta.
RelativeSub(today, years, months) ==
  RelativeAdd(today, -FixedYears(years, months), -FixedMonths(months))

\* ------------------------------------------------------------------------
\* dialect/base.py, snowflake.py, oracle.py, rest.py
\* ------------------------------------------------------------------------

LowerLetters == <<"a","b","c","d","e","f","g","h","i","j","k","l","m",
                  "n","o","p","q","r","s","t","u","v","w","x","y","z">>

UpperLetters == <<"A","B","C","D","E","F","G","H","I","J","K","L","M",
                  "N","O","P","Q","R","S","T","U","V","W","X","Y","Z">>

\* str.upper on ASCII text
UpperStr(s) ==
  [i \in 1..Len(s) |->
     IF \E k \in 1..26 : LowerLetters[k] = s[i]
     THEN UpperLetters[CHOOSE k \in 1..26 : LowerLetters[k] = s[i]]
     ELSE s[i]]

\* str(n) of an int, as the f-strings format it
IntStr(n) == IF n < 0 THEN <<"-">> \o IntToStr(-n) ELSE IntToStr(n)

\* VersionDialect.date_filter: f"{column} >= {lookback_sql}"; an exception
\* of lookback_start passes through.
VersionDialect_date_filter(column, lookback_sql) ==
  IF lookback_sql.ok
  THEN Returned(column \o <<" ", ">", "=", " ">> \o lookback_sql.str)
  ELSE lookback_sql

VersionDialect_no_filter == Returned(<<"1", "=", "1">>)

VersionDialect_latest_subquery_hint == Returned(<<"'", "_", "_", "L", "A", "T", "E", "S", "T", "_", "_", "'">>)

SnowflakeDialect_current_date == Returned(<<"C", "U", "R", "R", "E", "N", "T", "_", "D", "A", "T", "E", "(", ")">>)

\* f"TO_DATE('{date_str}', 'YYYYMMDD')"
SnowflakeDialect_date_literal(date_str) ==
  Returned(<<"T", "O", "_", "D", "A", "T", "E", "(", "'">> \o date_str \o <<"'", ",", " ", "'", "Y", "Y", "Y", "Y", "M", "M", "D", "D", "'", ")">>)

\* unit_map.get(unit_upper, "DAY")
SnowflakeUnit(unit_upper) ==
  IF unit_upper = <<"Y">> THEN <<"Y", "E", "A", "R">>
  ELSE IF unit_upper = <<"M">> THEN <<"M", "O", "N", "T", "H">>
  ELSE IF unit_upper = <<"W">> THEN <<"W", "E", "E", "K">>
  ELSE <<"D", "A", "Y">>

\* A faulty line 35 without the minus sign.
SnowflakeDialect_lookback_start_NotNegated(value, unit) ==
  Returned(<<"D", "A", "T", "E", "A", "D", "D", "(", "'">> \o SnowflakeUnit(UpperStr(unit)) \o <<"'", ",", " ">>
           \o IntStr(value) \o <<",", " ", "C", "U", "R", "R", "E", "N", "T", "_", "D", "A", "T", "E", "(", ")", ")">>)

\* f"DATEADD('{sql_unit}', -{value}, CURRENT_DATE())"
SnowflakeDialect_lookback_start(value, unit) ==
  Returned(<<"D", "A", "T", "E", "A", "D", "D", "(", "'">> \o SnowflakeUnit(UpperStr(unit)) \o <<"'", ",", " ", "-">>
           \o IntStr(value) \o <<",", " ", "C", "U", "R", "R", "E", "N", "T", "_", "D", "A", "T", "E", "(", ")", ")">>)

OracleDialect_current_date == Returned(<<"S", "Y", "S", "D", "A", "T", "E">>)

OracleDialect_date_literal(date_str) ==
  Returned(<<"T", "O", "_", "D", "A", "T", "E", "(", "'">> \o date_str \o <<"'", ",", " ", "'", "Y", "Y", "Y", "Y", "M", "M", "D", "D", "'", ")">>)

\* A faulty line 34 that forgets the factor 12.
OracleDialect_lookback_start_YearsAsMonths(value, unit) ==
  IF UpperStr(unit) = <<"Y">> \/ UpperStr(unit) = <<"M">>
  THEN Returned(<<"A", "D", "D", "_", "M", "O", "N", "T", "H", "S", "(", "S", "Y", "S", "D", "A", "T", "E", ",", " ", "-">> \o IntStr(value) \o <<")">>)
  ELSE IF UpperStr(unit) = <<"W">>
  THEN Returned(<<"S", "Y", "S", "D", "A", "T", "E", " ", "-", " ">> \o IntStr(value * 7))
  ELSE Returned(<<"S", "Y", "S", "D", "A", "T", "E", " ", "-", " ">> \o IntStr(value))

OracleDialect_lookback_start(value, unit) ==
  IF UpperStr(unit) = <<"Y">>
  THEN Returned(<<"A", "D", "D", "_", "M", "O", "N", "T", "H", "S", "(", "S", "Y", "S", "D", "A", "T", "E", ",", " ", "-">> \o IntStr(value * 12) \o <<")">>)
  ELSE IF UpperStr(unit) = <<"M">>
  THEN Returned(<<"A", "D", "D", "_", "M", "O", "N", "T", "H", "S", "(", "S", "Y", "S", "D", "A", "T", "E", ",", " ", "-">> \o IntStr(value) \o <<")">>)
  ELSE IF UpperStr(unit) = <<"W">>
  THEN Returned(<<"S", "Y", "S", "D", "A", "T", "E", " ", "-", " ">> \o IntStr(value * 7))
  ELSE Returned(<<"S", "Y", "S", "D", "A", "T", "E", " ", "-", " ">> \o IntStr(value))

\* RestDialect.current_date: date.today().isoformat()
RestDialect_current_date(today) == Returned(IsoFormat(today))

\* int(s) of a slice of date_str: ValueError unless it is a run of digits
\* (signs, blanks and underscores are outside the modelled inputs).
IsInt(s) == Len(s) > 0 /\ \A i \in 1..Len(s) : s[i] \in Digits

\* The slice s[a:b] of Python, 0-based and cut to the string.
Slice(s, a, b) == SubSeq(s, a + 1, Min(b, Len(s)))

RestDateOf(year, month, day) ==
  IF MakeDate(year, month, day).ok
  THEN Returned(IsoFormat(Date(year, month, day)))
  ELSE Raised("ValueError")

\* RestDialect.date_literal
RestDialect_date_literal(date_str) ==
  IF /\ IsInt(Slice(date_str, 0, 4))
     /\ IsInt(Slice(date_str, 4, 6))
     /\ IsInt(Slice(date_str, 6, 8))
  THEN RestDateOf(ParseInt(Slice(date_str, 0, 4)),
                  ParseInt(Slice(date_str, 4, 6)),
                  ParseInt(Slice(date_str, 6, 8)))
  ELSE Raised("ValueError")

\* RestDialect.lookback_start; today is what date.today() returns.
RestDialect_lookback_start(value, unit, today) ==
  IF UpperStr(unit) = <<"Y">> THEN RelativeSub(today, value, 0)
  ELSE IF UpperStr(unit) = <<"M">> THEN RelativeSub(today, 0, value)
  ELSE IF UpperStr(unit) = <<"W">> THEN MinusDays(today, 7 * value)
  ELSE MinusDays(today, value)

\* RestDialect.date_filter
RestDialect_date_filter(column, value, unit, today) ==
  RestDialect_lookback_start(value, unit, today)

RestDialect_no_filter == Returned(<<>>)

\* Moniker.version_date: the version when it is eight digits
version_date(m) ==
  IF /\ m.version # None
     /\ Len(m.version[1]) = 8
     /\ \A i \in 1..Len(m.version[1]) : m.version[1][i] \in Digits
  THEN m.version
  ELSE None

\* ==== STATE MACHINE ======================================================
\* The functions above are pure; the state machine is a caller that draws
\* an input, calls them and keeps what they return.
\* ------------------------------------------------------------------------

VARIABLES
  pc,        \* the call made last
  input,     \* moniker_str handed to parse_moniker / normalize_moniker
  validate,  \* the validate flag of the first parse
  parsed,    \* what parse_moniker(input, validate=validate) returned or raised
  text,      \* str(m) of the parsed or built Moniker
  reparsed,  \* what parse_moniker(text) returned or raised
  norm1,     \* what normalize_moniker(input) returned or raised
  norm2,     \* what normalize_moniker(norm1) returned or raised
  args,      \* the arguments of build_moniker
  built,     \* what build_moniker(args) returned or raised
  cur,       \* path algebra: the MonikerPath held by the caller
  last,      \* path algebra: the last operation and what it returned
  lenient,   \* what parse_moniker(input, validate=False) returned or raised
  path_str,  \* the string handed to parse_path and MonikerPath.from_string
  parsed_path, \* what parse_path(path_str, validate=validate) returned or raised
  from_str,  \* what MonikerPath.from_string(path_str) returned
  trio,      \* three MonikerPaths p, q, r
  order,     \* the is_ancestor_of / is_descendant_of answers among them
  catalog,   \* node_at: the Ownership of each catalog path, or absent
  target,    \* the path ownership is resolved at
  resolved,  \* the ResolvedOwnership of target
  folded,    \* merge_with_parent folded from target up its ancestor chain
  pair,      \* the two Ownerships of one merge_with_parent call
  merged,    \* what self.merge_with_parent(parent) returned
  clock,     \* the date that date.today() returns now
  call,      \* a dialect, one of its six operations and the arguments
  first,     \* the date of the first call and what it returned or raised
  second,    \* the same call made again: its date and what it returned
  prefixed,  \* what parse_moniker("moniker://" + input, validate) returned
  dated      \* version_date of the parsed Moniker and its date_literal

parseVars == <<input, validate, parsed, text, reparsed, norm1, norm2, lenient>>

buildVars == <<args, built>>

pathVars == <<cur, last>>

ctorVars == <<path_str, parsed_path, from_str>>

orderVars == <<trio, order>>

ownVars == <<catalog, target, resolved, folded, pair, merged>>

\* What the callers of the parser, the builder and child/parent/ancestors
\* never touch.
dialectVars == <<clock, call, first, second>>

schemeVars == <<prefixed>>

dateVars == <<dated>>

laterVars == <<dialectVars, schemeVars, dateVars>>

otherVars == <<ctorVars, orderVars, ownVars, laterVars>>

vars == <<pc, parseVars, buildVars, pathVars, otherVars>>

NoResult == [ok |-> FALSE, err |-> "not called", m |-> NoMoniker]

NoNorm == [ok |-> FALSE, err |-> "not called", str |-> <<>>]

NoArgs == [path |-> <<>>, namespace |-> None, version |-> None,
           revision |-> None, params |-> NoParams]

NoOp == [op |-> "none", arg |-> <<>>, paths |-> <<>>]

\* ---- inputs of the parser -----------------------------------------------

BodyAlphabet == {"a", "v", "2", "@", "/", "\n"}

Bodies == UNION {[1..n -> BodyAlphabet] : n \in 0..MaxBody}

Prefixes == {<<>>, SchemePrefix}

Suffixes == {<<>>, <<"?","k","=","2">>}

\* The literal inputs of the specification's examples, and a few more.
Literals == {
  <<"a","@","1","/","b">>,
  <<"a","@","b","/","c">>,
  <<"a","/","b","@","c">>,
  <<"a","/","v","2">>,
  <<"a","/","v","x">>,
  <<"x","/","a","@","1","/","b">>,
  <<"a","/","v","2","/">>,
  <<"n","s","@","a","/","b","@","v","/","v","2">>,
  <<" ">>,
  <<"h","t","t","p",":","/","/","a">>,
  <<"a","/","v","2","\n","?","k","=","2">>,
  <<" ","h","t","t","p",":","/","/","a"," ">>,
  <<"a","?","k","=","b",":","/","/","c">>,
  <<":","/","/">>,
  <<"m","o","n","i","k","e","r",":","/","a">>,
  <<"M","o","n","i","k","e","r",":","/","/","a">>,
  <<" ","m","o","n","i","k","e","r",":","/","/","a","/","b",":","/","/","c">>,
  <<"a","@","/","/","b">>
}

ParserInputs == {p \o b \o q : p \in Prefixes, b \in Bodies, q \in Suffixes}
                \cup Literals

ParserIdle ==
  /\ parsed = NoResult /\ text = <<>> /\ reparsed = NoResult
  /\ norm1 = NoNorm /\ norm2 = NoNorm /\ lenient = NoResult

BuilderIdle == args = NoArgs /\ built = NoResult

PathIdle == cur = root /\ last = NoOp

\* parsed_path is PathRaise until parse_path is called.
CtorIdle == path_str = <<>> /\ parsed_path = PathRaise /\ from_str = root

NoTrio == [p |-> root, q |-> root, r |-> root]

NoOrder == [pp |-> FALSE, pq |-> FALSE, qp |-> FALSE, qr |-> FALSE,
            pr |-> FALSE, p_desc_q |-> FALSE, q_ancestors |-> <<>>]

OrderIdle == trio = NoTrio /\ order = NoOrder

NoCatalog == <<>>

NoResolved == ResolvedOwnership(NoOwnership, NoOwnership)

NoPair == [self |-> NoOwnership, parent |-> NoOwnership]

OwnIdle ==
  /\ catalog = NoCatalog /\ target = root /\ resolved = NoResolved
  /\ folded = NoOwnership /\ pair = NoPair /\ merged = NoOwnership

NotCalled == Raised("not called")

NoCall == [dialect |-> "none", op |-> "none", column |-> <<>>,
           value |-> 0, unit |-> <<>>, date_str |-> <<>>]

NoAnswer == [at |-> Date(MINYEAR, 1, 1), res |-> NotCalled]

DialectIdle ==
  /\ clock = Date(MINYEAR, 1, 1) /\ call = NoCall
  /\ first = NoAnswer /\ second = NoAnswer

NoDated == [version_date |-> None, snowflake |-> NotCalled,
            oracle |-> NotCalled, rest |-> NotCalled]

LaterIdle == DialectIdle /\ prefixed = NoResult /\ dated = NoDated

OtherIdle == CtorIdle /\ OrderIdle /\ OwnIdle /\ LaterIdle

InitParse ==
  /\ pc = "start"
  /\ input \in ParserInputs
  /\ validate \in BOOLEAN
  /\ ParserIdle /\ BuilderIdle /\ PathIdle /\ OtherIdle

\* m = parse_moniker(input, validate=validate)
Parse ==
  /\ pc = "start"
  /\ parsed' = parse_moniker(input, validate)
  /\ pc' = "parsed"
  /\ UNCHANGED <<input, validate, text, reparsed, norm1, norm2, args, built, cur, last, lenient, otherVars>>

\* text = str(m)
Serialize ==
  /\ pc = "parsed"
  /\ parsed.ok
  /\ text' = MonikerStr(parsed.m)
  /\ pc' = "serialized"
  /\ UNCHANGED <<input, validate, parsed, reparsed, norm1, norm2, args, built, cur, last, lenient, otherVars>>

\* parse_moniker(text), validate left at its default
Reparse ==
  /\ pc = "serialized"
  /\ reparsed' = parse_moniker(text, TRUE)
  /\ pc' = "reparsed"
  /\ UNCHANGED <<input, validate, parsed, text, norm1, norm2, args, built, cur, last, lenient, otherVars>>

\* n1 = normalize_moniker(input)
Normalize ==
  /\ pc = "start"
  /\ validate
  /\ norm1' = normalize_moniker(input)
  /\ pc' = "normalized"
  /\ UNCHANGED <<input, validate, parsed, text, reparsed, norm2, args, built, cur, last, lenient, otherVars>>

\* n2 = normalize_moniker(n1)
NormalizeAgain ==
  /\ pc = "normalized"
  /\ norm1.ok
  /\ norm2' = normalize_moniker(norm1.str)
  /\ pc' = "renormalized"
  /\ UNCHANGED <<input, validate, parsed, text, reparsed, norm1, args, built, cur, last, lenient, otherVars>>

\* parse_moniker(input, validate=False), after the validating parse
ParseLenient ==
  /\ pc = "parsed"
  /\ validate
  /\ lenient' = parse_moniker(input, FALSE)
  /\ pc' = "lenient"
  /\ UNCHANGED <<input, validate, parsed, text, reparsed, norm1, norm2,
                 buildVars, pathVars, otherVars>>

NextParse ==
  Parse \/ Serialize \/ Reparse \/ Normalize \/ NormalizeAgain \/ ParseLenient

SpecParse == InitParse /\ [][NextParse]_vars

\* ---- the query string ------------------------------------------------------

\* Longest generated query string.
MaxQuery == 5

QueryAlphabet == {"k", "a", "2", "=", "&"}

QueryStrings == UNION {[1..n -> QueryAlphabet] : n \in 0..MaxQuery}

\* Monikers of path a with a generated query, with and without the scheme.
QueryInputs == {p \o <<"a", "?">> \o q : p \in Prefixes, q \in QueryStrings}

InitQuery ==
  /\ pc = "start"
  /\ input \in QueryInputs
  /\ validate \in BOOLEAN
  /\ ParserIdle /\ BuilderIdle /\ PathIdle /\ OtherIdle

SpecQuery == InitQuery /\ [][NextParse]_vars

\* ---- the builder -----------------------------------------------------------

\* Longest generated path argument of build_moniker.
MaxBuildPath == 3

\* Largest generated revision argument.
MaxRevision == 2

BuildPaths == UNION {[1..n -> {"a", "v", "2", "/", "@"}] : n \in 0..MaxBuildPath}

BuildNamespaces == {None, Some(<<>>), Some(<<"a">>), Some(<<"2">>)}

BuildVersions == {None, Some(<<>>), Some(<<"v">>), Some(<<"@">>)}

BuildRevisions == {None} \cup {Some(n) : n \in 0..MaxRevision}

BuildParams == {NoParams, << <<<<"k">>, <<"2">>>> >>}

InitBuild ==
  /\ pc = "start"
  /\ args \in [path : BuildPaths, namespace : BuildNamespaces,
               version : BuildVersions, revision : BuildRevisions,
               params : BuildParams]
  /\ built = NoResult
  /\ input = <<>> /\ validate = TRUE
  /\ ParserIdle /\ PathIdle /\ OtherIdle

\* m = build_moniker(path, namespace=..., version=..., revision=..., **params)
Build ==
  /\ pc = "start"
  /\ built' = build_moniker(args.path, args.namespace, args.version,
                            args.revision, args.params)
  /\ pc' = "built"
  /\ UNCHANGED <<input, validate, parsed, text, reparsed, norm1, norm2, args, cur, last, lenient, otherVars>>

\* text = str(m)
SerializeBuilt ==
  /\ pc = "built"
  /\ built.ok
  /\ text' = MonikerStr(built.m)
  /\ pc' = "serialized"
  /\ UNCHANGED <<input, validate, parsed, reparsed, norm1, norm2, args, built, cur, last, lenient, otherVars>>

NextBuild == Build \/ SerializeBuilt \/ Reparse

SpecBuild == InitBuild /\ [][NextBuild]_vars

\* ---- the path algebra -----------------------------------------------------

\* Deepest path the caller builds.
MaxDepth == 3

\* The segments handed to child().
ChildSegments == {<<"a">>, <<"v", "2">>, <<>>, <<"a", "/", "b">>, <<"@">>,
                  <<"x">>, <<"y">>, <<"z">>}

InitPath ==
  /\ pc = "path"
  /\ cur \in {root, <<<<"a">>>>, <<<<"a">>, <<"v", "2">>>>}
  /\ last = NoOp
  /\ input = <<>> /\ validate = TRUE
  /\ ParserIdle /\ BuilderIdle /\ OtherIdle

\* cur = cur.child(segment)
Child(segment) ==
  /\ pc = "path"
  /\ Len(cur) < MaxDepth
  /\ cur' = child(cur, segment)
  /\ last' = [op |-> "child", arg |-> segment, paths |-> <<cur'>>]
  /\ UNCHANGED <<pc, input, validate, parsed, text, reparsed, norm1, norm2, args, built, lenient, otherVars>>

\* cur = cur.parent, when there is one
Parent ==
  /\ pc = "path"
  /\ parent(cur) # None
  /\ cur' = parent(cur)[1]
  /\ last' = [op |-> "parent", arg |-> <<>>, paths |-> <<cur'>>]
  /\ UNCHANGED <<pc, input, validate, parsed, text, reparsed, norm1, norm2, args, built, lenient, otherVars>>

\* cur.ancestors()
Ancestors ==
  /\ pc = "path"
  /\ last' = [op |-> "ancestors", arg |-> <<>>, paths |-> ancestors(cur)]
  /\ UNCHANGED <<pc, cur, input, validate, parsed, text, reparsed, norm1, norm2, args, built, lenient, otherVars>>

NextPath == (\E segment \in ChildSegments : Child(segment)) \/ Parent \/ Ancestors

SpecPath == InitPath /\ [][NextPath]_vars

\* ---- the path constructors -------------------------------------------------

\* Longest generated path string.
MaxPathStr == 4

PathAlphabet == {"a", ".", "@", "/", "\n"}

PathStrings == UNION {[1..n -> PathAlphabet] : n \in 0..MaxPathStr}

InitCtor ==
  /\ pc = "ctor"
  /\ path_str \in PathStrings
  /\ validate \in BOOLEAN
  /\ parsed_path = PathRaise /\ from_str = root
  /\ input = <<>>
  /\ ParserIdle /\ BuilderIdle /\ PathIdle /\ OrderIdle /\ OwnIdle /\ LaterIdle

\* parse_path(path_str, validate=validate)
ParsePath ==
  /\ pc = "ctor"
  /\ parsed_path' = parse_path(path_str, validate)
  /\ pc' = "parse_path"
  /\ UNCHANGED <<path_str, from_str, parseVars, buildVars, pathVars, laterVars, orderVars, ownVars>>

\* MonikerPath.from_string(path_str)
FromString ==
  /\ pc = "parse_path"
  /\ from_str' = from_string(path_str)
  /\ pc' = "from_string"
  /\ UNCHANGED <<path_str, parsed_path, parseVars, buildVars, pathVars, laterVars, orderVars, ownVars>>

NextCtor == ParsePath \/ FromString

SpecCtor == InitCtor /\ [][NextCtor]_vars

\* ---- ancestry among three paths -------------------------------------------

\* Deepest compared path.
MaxOrderDepth == 3

OrderPaths == UNION {[1..n -> {<<"a">>, <<"b">>}] : n \in 0..MaxOrderDepth}

InitOrder ==
  /\ pc = "order"
  /\ trio \in [p : OrderPaths, q : OrderPaths, r : OrderPaths]
  /\ order = NoOrder
  /\ input = <<>> /\ validate = TRUE
  /\ ParserIdle /\ BuilderIdle /\ PathIdle /\ CtorIdle /\ OwnIdle /\ LaterIdle

\* p.is_ancestor_of(p), p.is_ancestor_of(q), ... , p.is_descendant_of(q),
\* q.ancestors()
Compare ==
  /\ pc = "order"
  /\ order' = [pp |-> is_ancestor_of(trio.p, trio.p),
               pq |-> is_ancestor_of(trio.p, trio.q),
               qp |-> is_ancestor_of(trio.q, trio.p),
               qr |-> is_ancestor_of(trio.q, trio.r),
               pr |-> is_ancestor_of(trio.p, trio.r),
               p_desc_q |-> is_descendant_of(trio.p, trio.q),
               q_ancestors |-> ancestors(trio.q)]
  /\ pc' = "compared"
  /\ UNCHANGED <<trio, parseVars, buildVars, pathVars, laterVars, ctorVars, ownVars>>

NextOrder == Compare

SpecOrder == InitOrder /\ [][NextOrder]_vars

\* ---- ownership ---------------------------------------------------------------

SegRoot == <<"r", "o", "o", "t">>

SegChild == <<"c", "h", "i", "l", "d">>

SegLeaf == <<"l", "e", "a", "f">>

SegOther == <<"o", "t", "h", "e", "r">>

\* The catalog's nodes: root, root/child, root/child/leaf.
CatalogPaths == {<<SegRoot>>, <<SegRoot, SegChild>>, <<SegRoot, SegChild, SegLeaf>>}

\* The paths ownership is resolved at: the nodes, and paths without a node.
TargetPaths == CatalogPaths \cup {root, <<SegOther>>, <<SegRoot, SegOther>>}

\* Ownerships of the nodes: accountable_owner is unset, empty or one of two
\* values, data_specialist and adal are unset or set, and the other three
\* slots are set together or not at all.
OwnershipSamples ==
  {Ownership(a, d, None, None, None, l) :
     a \in {None, Some(<<>>), Some(<<"A">>), Some(<<"B">>)},
     d \in {None, Some(<<"B">>)},
     l \in {None, Some(<<"C">>)}}
  \cup {Ownership(None, None, Some(<<"S">>), Some(<<"P">>), Some(<<"T">>), None)}

InitOwn ==
  /\ pc = "own"
  /\ catalog \in [CatalogPaths -> {None} \cup {Some(o) : o \in OwnershipSamples}]
  /\ target \in TargetPaths
  /\ resolved = NoResolved /\ folded = NoOwnership
  /\ pair = NoPair /\ merged = NoOwnership
  /\ input = <<>> /\ validate = TRUE
  /\ ParserIdle /\ BuilderIdle /\ PathIdle /\ CtorIdle /\ OrderIdle /\ LaterIdle

\* resolve_ownership(target, node_at)
Resolve ==
  /\ pc = "own"
  /\ resolved' = resolve_ownership(target, catalog)
  /\ pc' = "resolved"
  /\ UNCHANGED <<catalog, target, folded, pair, merged,
                 parseVars, buildVars, pathVars, laterVars, ctorVars, orderVars>>

\* The node at target merged with its ancestors' nodes, parent first.
Fold ==
  /\ pc = "resolved"
  /\ folded' = FoldUp(OwnershipAt(catalog, target), catalog,
                      Tail(AncestorChain(target)))
  /\ pc' = "folded"
  /\ UNCHANGED <<catalog, target, resolved, pair, merged,
                 parseVars, buildVars, pathVars, laterVars, ctorVars, orderVars>>

\* node.merge_with_parent(parent node), for a target whose node and parent
\* node both exist
Merge ==
  /\ pc = "own"
  /\ parent(target) # None
  /\ node_at(catalog, target) # None
  /\ node_at(catalog, parent(target)[1]) # None
  /\ pair' = [self |-> node_at(catalog, target)[1],
              parent |-> node_at(catalog, parent(target)[1])[1]]
  /\ merged' = merge_with_parent(node_at(catalog, target)[1],
                                 node_at(catalog, parent(target)[1])[1])
  /\ pc' = "merged"
  /\ UNCHANGED <<catalog, target, resolved, folded,
                 parseVars, buildVars, pathVars, laterVars, ctorVars, orderVars>>

NextOwn == Resolve \/ Fold \/ Merge

SpecOwn == InitOwn /\ [][NextOwn]_vars

\* ---- the three dialects ------------------------------------------------------

\* One call of a SnowflakeDialect method; date_filter, no_filter and
\* latest_subquery_hint are inherited from VersionDialect.
SnowflakeDialect(c) ==
  IF c.op = "current_date" THEN SnowflakeDialect_current_date
  ELSE IF c.op = "date_literal" THEN SnowflakeDialect_date_literal(c.date_str)
  ELSE IF c.op = "lookback_start"
  THEN SnowflakeDialect_lookback_start(c.value, c.unit)
  ELSE IF c.op = "date_filter"
  THEN VersionDialect_date_filter(c.column,
         SnowflakeDialect_lookback_start(c.value, c.unit))
  ELSE IF c.op = "no_filter" THEN VersionDialect_no_filter
  ELSE VersionDialect_latest_subquery_hint

\* One call of an OracleDialect method.
OracleDialect(c) ==
  IF c.op = "current_date" THEN OracleDialect_current_date
  ELSE IF c.op = "date_literal" THEN OracleDialect_date_literal(c.date_str)
  ELSE IF c.op = "lookback_start"
  THEN OracleDialect_lookback_start(c.value, c.unit)
  ELSE IF c.op = "date_filter"
  THEN VersionDialect_date_filter(c.column,
         OracleDialect_lookback_start(c.value, c.unit))
  ELSE IF c.op = "no_filter" THEN VersionDialect_no_filter
  ELSE VersionDialect_latest_subquery_hint

\* One call of a RestDialect method; only latest_subquery_hint is inherited.
RestDialect(c, today) ==
  IF c.op = "current_date" THEN RestDialect_current_date(today)
  ELSE IF c.op = "date_literal" THEN RestDialect_date_literal(c.date_str)
  ELSE IF c.op = "lookback_start"
  THEN RestDialect_lookback_start(c.value, c.unit, today)
  ELSE IF c.op = "date_filter"
  THEN RestDialect_date_filter(c.column, c.value, c.unit, today)
  ELSE IF c.op = "no_filter" THEN RestDialect_no_filter
  ELSE VersionDialect_latest_subquery_hint

\* A faulty family whose SQL dialects write today's date into current_date
\* instead of the backend's own expression.
DialectCall_InlineToday(c, today) ==
  IF c.dialect # "rest" /\ c.op = "current_date"
  THEN SnowflakeDialect_date_literal(Remove(IsoFormat(today), {"-"}))
  ELSE IF c.dialect = "snowflake" THEN SnowflakeDialect(c)
  ELSE IF c.dialect = "oracle" THEN OracleDialect(c)
  ELSE RestDialect(c, today)

\* The call c made on the day today: the method of the chosen dialect.
DialectCall(c, today) ==
  IF c.dialect = "snowflake" THEN SnowflakeDialect(c)
  ELSE IF c.dialect = "oracle" THEN OracleDialect(c)
  ELSE RestDialect(c, today)

\* Largest of the small lookback values.
MaxLookback == 3

\* Small values, one negative, and values that reach the carry of months
\* into years and the ends of the calendar.
LookbackValues == (-1..MaxLookback) \cup {12, 13, 2026, 4000000}

LookbackUnits == {<<u>> : u \in {"Y", "M", "W", "D", "y", "m", "w", "d", "X"}}

DateStrings == {<<"2", "0", "2", "6", "0", "1", "3", "1">>,
                <<"2", "0", "2", "4", "0", "2", "2", "9">>,
                <<"2", "0", "2", "6", "1", "3", "0", "1">>,
                <<"2", "0", "2", "6">>}

Columns == {<<"d", "t">>}

Dialects == {"snowflake", "oracle", "rest"}

CallOf(dialect, op, column, value, unit, date_str) ==
  [dialect |-> dialect, op |-> op, column |-> column, value |-> value,
   unit |-> unit, date_str |-> date_str]

DialectCalls ==
  {CallOf(d, op, <<>>, 0, <<>>, <<>>) :
     d \in Dialects, op \in {"current_date", "no_filter", "latest_subquery_hint"}}
  \cup {CallOf(d, "date_literal", <<>>, 0, <<>>, s) :
          d \in Dialects, s \in DateStrings}
  \cup {CallOf(d, "lookback_start", <<>>, v, u, <<>>) :
          d \in Dialects, v \in LookbackValues, u \in LookbackUnits}
  \cup {CallOf(x[1], "date_filter", x[2], v, u, <<>>) :
          x \in Dialects \X Columns, v \in LookbackValues, u \in LookbackUnits}

\* The days the calls are made on.
Todays == {Date(2024, 2, 29), Date(2026, 1, 1), Date(2026, 3, 31)}

InitDialect ==
  /\ pc = "dialect"
  /\ clock \in Todays
  /\ call \in DialectCalls
  /\ first = NoAnswer /\ second = NoAnswer
  /\ input = <<>> /\ validate = TRUE
  /\ prefixed = NoResult /\ dated = NoDated
  /\ ParserIdle /\ BuilderIdle /\ PathIdle /\ CtorIdle /\ OrderIdle /\ OwnIdle

\* The call is made.
Call ==
  /\ pc = "dialect"
  /\ first' = [at |-> clock, res |-> DialectCall(call, clock)]
  /\ pc' = "called"
  /\ UNCHANGED <<clock, call, second, parseVars, buildVars, pathVars,
                 ctorVars, orderVars, ownVars, schemeVars, dateVars>>

\* Days pass between the two calls.
Tick ==
  /\ pc = "called"
  /\ \E day \in Todays : ToOrdinal(day) > ToOrdinal(clock) /\ clock' = day
  /\ UNCHANGED <<pc, call, first, second, parseVars, buildVars, pathVars,
                 ctorVars, orderVars, ownVars, schemeVars, dateVars>>

\* The same call is made again.
CallAgain ==
  /\ pc = "called"
  /\ second' = [at |-> clock, res |-> DialectCall(call, clock)]
  /\ pc' = "called_twice"
  /\ UNCHANGED <<clock, call, first, parseVars, buildVars, pathVars,
                 ctorVars, orderVars, ownVars, schemeVars, dateVars>>

NextDialect == Call \/ Tick \/ CallAgain

SpecDialect == InitDialect /\ [][NextDialect]_vars

\* ---- the scheme prefix ----------------------------------------------------------

\* Inputs without "://": bodies with or without a query, blanks, a fragment.
SchemeInputs ==
  {s \in {b \o q : b \in Bodies, q \in Suffixes}
         \cup {<<" ", "a">>, <<"a", "#", "v">>, <<"a", "?", "k", "=", "2", "#", "v">>} :
     ~Contains(s, <<":", "/", "/">>)}

InitScheme ==
  /\ pc = "start"
  /\ input \in SchemeInputs
  /\ validate \in BOOLEAN
  /\ ParserIdle /\ BuilderIdle /\ PathIdle /\ OtherIdle

\* parse_moniker("moniker://" + input, validate=validate)
ParsePrefixed ==
  /\ pc = "parsed"
  /\ prefixed' = parse_moniker(SchemePrefix \o input, validate)
  /\ pc' = "prefixed"
  /\ UNCHANGED <<parseVars, buildVars, pathVars, ctorVars, orderVars, ownVars,
                 dialectVars, dateVars>>

NextScheme == Parse \/ ParsePrefixed

SpecScheme == InitScheme /\ [][NextScheme]_vars

\* ---- date versions ---------------------------------------------------------------

DateYears == {<<"2", "0", "2", "6">>, <<"2", "0", "2", "4">>, <<"0", "0", "0", "0">>, <<"9", "9", "9", "9">>}

DateMonths == {<<"0", "0">>, <<"0", "1">>, <<"0", "2">>, <<"1", "2">>, <<"1", "3">>}

DateDays == {<<"0", "0">>, <<"0", "1">>, <<"2", "9">>, <<"3", "0">>, <<"3", "1">>, <<"3", "2">>}

\* a/b@YYYYMMDD for dates inside and outside the calendar, and versions that
\* are no dates.
DateInputs ==
  {<<"a", "/", "b", "@">> \o y \o mo \o d : y \in DateYears, mo \in DateMonths, d \in DateDays}
  \cup {<<"a", "/", "b", "@", "l", "a", "t", "e", "s", "t">>, <<"a", "/", "b", "@", "3", "M">>, <<"a", "/", "b", "@", "2", "0", "2", "6", "0", "1", "3">>, <<"a", "/", "b", "@", "2", "0", "2", "6", "0", "1", "3", "a">>, <<"a", "/", "b">>}

InitDate ==
  /\ pc = "start"
  /\ input \in DateInputs
  /\ validate \in BOOLEAN
  /\ ParserIdle /\ BuilderIdle /\ PathIdle /\ OtherIdle

\* m.version_date and date_literal(m.version_date) of the three dialects
DateLiteral ==
  /\ pc = "parsed"
  /\ parsed.ok
  /\ version_date(parsed.m) # None
  /\ dated' = [version_date |-> version_date(parsed.m),
               snowflake |-> SnowflakeDialect_date_literal(version_date(parsed.m)[1]),
               oracle |-> OracleDialect_date_literal(version_date(parsed.m)[1]),
               rest |-> RestDialect_date_literal(version_date(parsed.m)[1])]
  /\ pc' = "dated"
  /\ UNCHANGED <<parseVars, buildVars, pathVars, ctorVars, orderVars, ownVars,
                 dialectVars, schemeVars>>

NextDate == Parse \/ DateLiteral

SpecDate == InitDate /\ [][NextDate]_vars

\* ==== CLAIMS =============================================================

\* The grammars as section 3 and section 6 of the specification state them
\* (whole-string matches), written independently of the parser's patterns.
Alnum == Lower \cup Upper \cup Digits

IsSegment(s) ==
  /\ Len(s) >= 1 /\ Len(s) <= 128
  /\ s[1] \in Alnum
  /\ \A i \in 2..Len(s) : s[i] \in Alnum \cup {"_", ".", "-"}

IsNamespace(s) ==
  /\ Len(s) >= 1 /\ Len(s) <= 64
  /\ s[1] \in Lower \cup Upper
  /\ \A i \in 2..Len(s) : s[i] \in Alnum \cup {"_", "-"}

IsVersion(s) == Len(s) >= 1 /\ \A i \in 1..Len(s) : s[i] \in Alnum

AllDigits(s) == Len(s) >= 1 /\ \A i \in 1..Len(s) : s[i] \in Digits

IsParseError(r) == ~r.ok /\ r.err \in ParseErrors

\* C1: round trip for built monikers: for every Moniker m that build_moniker
\* returns, parse_moniker(str(m)) returns a Moniker equal to m field for
\* field.  The code breaks it: build_moniker("a", version="v") serializes
\* to moniker://a@v, which parses as namespace a, path v.
C1_BuiltRoundTrip ==
  (pc = "reparsed" /\ built.ok) => (reparsed.ok /\ MonikerEq(reparsed.m, built.m))

C1_Witness ==
  /\ pc = "reparsed"
  /\ args = [path |-> <<"a">>, namespace |-> None, version |-> Some(<<"v">>),
             revision |-> None, params |-> NoParams]
  /\ built.ok /\ built.m.path = << <<"a">> >> /\ built.m.version = Some(<<"v">>)
  /\ text = SchemePrefix \o <<"a", "@", "v">>
  /\ reparsed.ok
  /\ reparsed.m.namespace = Some(<<"a">>)
  /\ reparsed.m.path = << <<"v">> >>
  /\ reparsed.m.version = None

\* C2: serialization is the left inverse of parsing: whenever
\* parse_moniker(s) with validate=true returns m, parse_moniker(str(m))
\* succeeds and equals m field for field.  The code breaks it: "/a@v"
\* parses to path a, version v, whose string moniker://a@v parses to
\* namespace a, path v.
C2_ParsedRoundTrip ==
  (pc = "reparsed" /\ validate /\ parsed.ok)
    => (reparsed.ok /\ MonikerEq(reparsed.m, parsed.m))

C2_Witness ==
  /\ pc = "reparsed" /\ validate
  /\ input = <<"/", "a", "@", "v">>
  /\ parsed.ok /\ parsed.m.namespace = None
  /\ parsed.m.path = << <<"a">> >> /\ parsed.m.version = Some(<<"v">>)
  /\ text = SchemePrefix \o <<"a", "@", "v">>
  /\ reparsed.ok
  /\ reparsed.m.namespace = Some(<<"a">>)
  /\ reparsed.m.path = << <<"v">> >>
  /\ reparsed.m.version = None

\* C3: normalization is idempotent: whenever normalize_moniker(s) returns n,
\* normalize_moniker(n) succeeds and returns n.  The code breaks it: "/2@v"
\* normalizes to moniker://2@v, which normalize_moniker rejects (namespace 2).
C3_NormalizeIdempotent ==
  pc = "renormalized" => (norm2.ok /\ norm2.str = norm1.str)

C3_Witness ==
  /\ pc = "renormalized"
  /\ input = <<"/", "2", "@", "v">>
  /\ norm1.ok /\ norm1.str = SchemePrefix \o <<"2", "@", "v">>
  /\ ~norm2.ok /\ norm2.err = "InvalidNamespace"

\* The literal inputs the claims name.
Lit_a_at_1_slash_b == <<"a", "@", "1", "/", "b">>

Lit_x_slash_a_at_1_slash_b == <<"x", "/", "a", "@", "1", "/", "b">>

Lit_a_at_b_slash_c == <<"a", "@", "b", "/", "c">>

Lit_a_slash_b_at_c == <<"a", "/", "b", "@", "c">>

\* The body of an input (rule 1), and its remainder after namespace
\* stripping (rule 2) and after revision stripping (rule 3).
BodyOf(s) == SplitScheme(s).body

AfterNamespaceOf(s) == SplitNamespace(BodyOf(s), FALSE).remaining

AfterRevisionOf(s) == SplitRevision(AfterNamespaceOf(s)).remaining

\* The remainder holds an '@', and its last '@' is before its last '/'.
AtBeforeLastSlash(s) ==
  /\ Len(s) > 0
  /\ SplitScheme(s).err = ""
  /\ RFind(AfterRevisionOf(s), "@") # 0
  /\ RFind(AfterRevisionOf(s), "@") < RFind(AfterRevisionOf(s), "/")

\* C4 as stated: parse_moniker("a@1/b") with validate=true fails with a
\* ParseError.  The code returns a Moniker: its '@' precedes the first '/',
\* so rule 2 takes it as the namespace prefix.
C4_Original ==
  (pc = "parsed" /\ validate /\ input = Lit_a_at_1_slash_b) => IsParseError(parsed)

\* C4, amended: parse_moniker("a@1/b") returns namespace a, path 1/b and no
\* version.  An '@' left in the remainder after namespace and revision
\* stripping, whose last occurrence is before the last '/', is never taken
\* as a version: it stays in the path, and with validate=true the parse
\* fails with a ParseError (invalid segment, or invalid namespace when that
\* check failed first), as for "x/a@1/b".
C4_VersionOnFinalSegmentOnly ==
  pc = "parsed" =>
    /\ (validate /\ input = Lit_a_at_1_slash_b) =>
         /\ parsed.ok
         /\ parsed.m.namespace = Some(<<"a">>)
         /\ parsed.m.path = << <<"1">>, <<"b">> >>
         /\ parsed.m.version = None
    /\ AtBeforeLastSlash(input) =>
         /\ parsed.ok => parsed.m.version = None
         /\ validate => (~parsed.ok /\ parsed.err \in {"InvalidNamespace", "InvalidSegment"})
         /\ ~validate => parsed.ok

C4_Witness ==
  /\ pc = "parsed" /\ validate
  /\ input = Lit_x_slash_a_at_1_slash_b
  /\ AtBeforeLastSlash(input)
  /\ parsed.err = "InvalidSegment"

\* C5: namespace disambiguation: a parsed Moniker has a namespace if and
\* only if the body holds an '@' whose first occurrence is strictly before
\* the first '/' (or the body has no '/'); the namespace is then exactly the
\* text before that '@', and the rest is parsed as the remainder (another
\* namespace in front of the same rest gives the same path, version and
\* revision).  "a@b/c" has namespace a; "a/b@c" has none, and version c.
C5_NamespaceDisambiguation ==
  (pc = "parsed" /\ parsed.ok) =>
    /\ IF /\ Find(BodyOf(input), "@") # 0
          /\ \/ Find(BodyOf(input), "/") = 0
             \/ Find(BodyOf(input), "@") < Find(BodyOf(input), "/")
       THEN /\ parsed.m.namespace = Some(Upto(BodyOf(input), Find(BodyOf(input), "@")))
            /\ MonikerEq(parse_moniker(<<"x", "@">>
                            \o From(BodyOf(input), Find(BodyOf(input), "@") + 1)
                            \o <<"?">>, validate).m,
                         [parsed.m EXCEPT !.namespace = Some(<<"x">>), !.params = NoParams])
       ELSE parsed.m.namespace = None
    /\ input = Lit_a_at_b_slash_c =>
         /\ parsed.m.namespace = Some(<<"a">>)
         /\ parsed.m.path = << <<"b">>, <<"c">> >>
    /\ input = Lit_a_slash_b_at_c =>
         /\ parsed.m.namespace = None
         /\ parsed.m.version = Some(<<"c">>)
         /\ parsed.m.path = << <<"a">>, <<"b">> >>

C5_Witness ==
  /\ pc = "parsed"
  /\ input = Lit_a_at_b_slash_c
  /\ parsed.ok
  /\ parsed.m.namespace = Some(<<"a">>)

\* C6: revision suffix: a parsed Moniker has a revision if and only if the
\* text after the last "/v" of the remainder (after namespace stripping) is
\* a non-empty all-digit string running to the end; the revision is then
\* that integer.  The code breaks it: for "/v2\n?k=2" the text after "/v"
\* is "2\n", and the revision is 2.
C6_RevisionSuffix ==
  (pc = "parsed" /\ parsed.ok) =>
    IF /\ RFindSub(AfterNamespaceOf(input), <<"/", "v">>) # 0
       /\ AllDigits(From(AfterNamespaceOf(input),
                         RFindSub(AfterNamespaceOf(input), <<"/", "v">>) + 2))
    THEN parsed.m.revision =
           Some(ParseInt(From(AfterNamespaceOf(input),
                              RFindSub(AfterNamespaceOf(input), <<"/", "v">>) + 2)))
    ELSE parsed.m.revision = None

C6_Witness ==
  /\ pc = "parsed" /\ validate
  /\ input = <<"a", "/", "v", "2", "\n", "?", "k", "=", "2">>
  /\ AfterNamespaceOf(input) = <<"a", "/", "v", "2", "\n">>
  /\ parsed.ok
  /\ parsed.m.revision = Some(2)
  /\ parsed.m.path = << <<"a">> >>

\* C7: every Moniker parse_moniker returns with validate=true has a
\* namespace that is absent or matches the namespace grammar, a version
\* that is absent or a non-empty alphanumeric string, and a revision that
\* is absent or non-negative.  The code breaks it: "a/v@" returns version "".
C7_ComponentGrammars ==
  (pc = "parsed" /\ validate /\ parsed.ok) =>
    /\ parsed.m.namespace = None \/ IsNamespace(parsed.m.namespace[1])
    /\ parsed.m.version = None \/ IsVersion(parsed.m.version[1])
    /\ parsed.m.revision = None \/ parsed.m.revision[1] >= 0

C7_Witness ==
  /\ pc = "parsed" /\ validate
  /\ input = <<"a", "/", "v", "@">>
  /\ parsed.ok
  /\ parsed.m.path = << <<"a">>, <<"v">> >>
  /\ parsed.m.version = Some(<<>>)

\* C8: an empty moniker is rejected: parse_moniker with validate=true raises
\* a ParseError for "", " ", "moniker://" and "/", and no Moniker it returns
\* has an empty path.  The code breaks it: only "" raises.
C8_EmptyRejected ==
  (pc = "parsed" /\ validate) =>
    /\ input \in {<<>>, <<" ">>, SchemePrefix, <<"/">>} => IsParseError(parsed)
    /\ parsed.ok => Len(parsed.m.path) >= 1

C8_Witness ==
  /\ pc = "parsed" /\ validate
  /\ input = SchemePrefix
  /\ parsed.ok
  /\ parsed.m.path = root

\* C9: build_moniker never returns a Moniker holding an invalid component:
\* an invalid path segment, a supplied namespace outside the namespace
\* grammar or a supplied version that is not a non-empty alphanumeric
\* string raises a ParseError.  The code breaks it: only the path is checked.
C9_BuilderValidates ==
  (pc = "built" /\ built.ok) =>
    /\ \A i \in 1..Len(built.m.path) : IsSegment(built.m.path[i])
    /\ built.m.namespace = None \/ IsNamespace(built.m.namespace[1])
    /\ built.m.version = None \/ IsVersion(built.m.version[1])

C9_Witness ==
  /\ pc = "built"
  /\ args = [path |-> <<"a">>, namespace |-> Some(<<"2">>), version |-> None,
             revision |-> None, params |-> NoParams]
  /\ built.ok
  /\ built.m.namespace = Some(<<"2">>)

\* C10: starting from a path of valid segments, child, parent and
\* ancestors only ever yield paths whose segments all satisfy the segment
\* grammar.  The code breaks it: child appends any string, "" included.
C10_ChildValidates ==
  pc = "path" =>
    /\ \A i \in 1..Len(cur) : IsSegment(cur[i])
    /\ \A k \in 1..Len(last.paths) :
         \A i \in 1..Len(last.paths[k]) : IsSegment(last.paths[k][i])

C10_Witness ==
  /\ pc = "path"
  /\ last.op = "child" /\ last.arg = <<>>
  /\ cur = << <<"a">>, <<>> >>

\* C11: the validate flag changes the grammar checks only: whenever
\* parse_moniker(input, validate=True) succeeds, parse_moniker(input,
\* validate=False) succeeds with an equal Moniker; and with validate=False no
\* namespace, version or segment grammar violation is raised.
C11_ValidateFlagOnlyChecks ==
  /\ (pc = "lenient" /\ parsed.ok) =>
       (lenient.ok /\ MonikerEq(lenient.m, parsed.m))
  /\ (pc = "lenient" /\ ~lenient.ok) =>
       lenient.err \notin {"InvalidNamespace", "InvalidVersion", "InvalidSegment"}
  /\ (pc = "parsed" /\ ~validate /\ ~parsed.ok) =>
       parsed.err \notin {"InvalidNamespace", "InvalidVersion", "InvalidSegment"}

\* ns@a/b@v/v2 parses to the same Moniker with and without validation.
C11_Witness ==
  /\ pc = "lenient"
  /\ input = <<"n","s","@","a","/","b","@","v","/","v","2">>
  /\ parsed.ok /\ lenient.ok
  /\ lenient.m.namespace = Some(<<"n", "s">>)
  /\ lenient.m.path = << <<"a">>, <<"b">> >>
  /\ lenient.m.version = Some(<<"v">>)
  /\ lenient.m.revision = Some(2)

\* The strict parse of /@<LF>a raises for the version; the lenient parse of
\* the same input returns that version and the root path.
C11_WitnessLenient ==
  /\ pc = "lenient"
  /\ input = <<"/", "@", "\n", "a">>
  /\ ~parsed.ok /\ parsed.err = "InvalidVersion"
  /\ lenient.ok
  /\ lenient.m.version = Some(<<"\n", "a">>)
  /\ lenient.m.path = root

\* The serialization the specification describes: every component that is
\* present is written, in the fixed order.
KeyValues(params) ==
  [i \in 1..Len(params) |-> params[i][1] \o <<"=">> \o params[i][2]]

Canonical(m) ==
  SchemePrefix
  \o (IF m.namespace # None THEN m.namespace[1] \o <<"@">> ELSE <<>>)
  \o Join(m.path, "/")
  \o (IF m.version # None THEN <<"@">> \o m.version[1] ELSE <<>>)
  \o (IF m.revision # None THEN <<"/", "v">> \o IntToStr(m.revision[1]) ELSE <<>>)
  \o (IF Len(m.params) > 0 THEN <<"?">> \o Join(KeyValues(m.params), "&") ELSE <<>>)

\* C12: canonical serialization: str(m) is "moniker://", then the namespace
\* and '@' if a namespace is present, the path joined by '/', '@' and the
\* version if a version is present, "/v" and the revision if present, '?'
\* and the key=value pairs joined by '&' if there are parameters.  The code
\* breaks it: a version or namespace that is present but empty is left out.
C12_CanonicalSerialization ==
  (pc = "serialized" /\ built.ok) => text = Canonical(built.m)

\* build_moniker("a", version="") is versioned, and str() gives moniker://a.
C12_Witness ==
  /\ pc = "serialized"
  /\ args = [path |-> <<"a">>, namespace |-> None, version |-> Some(<<>>),
             revision |-> None, params |-> NoParams]
  /\ built.ok /\ built.m.version # None
  /\ text = SchemePrefix \o <<"a">>
  /\ Canonical(built.m) = SchemePrefix \o <<"a", "@">>

\* C13: unsupported scheme: parse_moniker raises the scheme error, whatever
\* the validate flag, for every input that contains "://" and does not start
\* with "moniker://" once surrounding whitespace is stripped, and never
\* raises it for an input that starts with "moniker://".
C13_UnsupportedScheme ==
  pc = "parsed" =>
    /\ (/\ Contains(Strip(input, Whitespace), <<":", "/", "/">>)
        /\ ~StartsWith(Strip(input, Whitespace), SchemePrefix))
         => (~parsed.ok /\ parsed.err = "InvalidScheme")
    /\ StartsWith(Strip(input, Whitespace), SchemePrefix)
         => parsed.err # "InvalidScheme"

\* " moniker://a/b://c" starts with the scheme after the strip and holds a
\* second "://": no scheme error (the segment "b:" is what fails).
C13_Witness ==
  /\ pc = "parsed" /\ validate
  /\ input = <<" ","m","o","n","i","k","e","r",":","/","/","a","/","b",":","/","/","c">>
  /\ ~parsed.ok /\ parsed.err = "InvalidSegment"

\* " http://a " is refused with validate=False as well.
C13_WitnessOther ==
  /\ pc = "parsed" /\ ~validate
  /\ input = <<" ","h","t","t","p",":","/","/","a"," ">>
  /\ ~parsed.ok /\ parsed.err = "InvalidScheme"

\* The '/'-separated pieces of a string, by the positions of its separators.
Cuts(s) == {0} \cup {i \in 1..Len(s) : s[i] = "/"} \cup {Len(s) + 1}

NthCut(s, k) == CHOOSE c \in Cuts(s) : Cardinality({d \in Cuts(s) : d < c}) = k - 1

Pieces(s) ==
  [k \in 1..(Cardinality(Cuts(s)) - 1) |->
     SubSeq(s, NthCut(s, k) + 1, NthCut(s, k + 1) - 1)]

\* The pieces of a path string once its leading and trailing '/' are gone;
\* a string that is empty by then has none.
ExpectedSegments(s) ==
  IF Strip(s, {"/"}) = <<>> THEN <<>> ELSE Pieces(Strip(s, {"/"}))

\* C14: validated path construction: parse_path with validate=true on a
\* string that is not empty after stripping '/' returns a path whose every
\* segment matches the segment grammar, or raises; it raises exactly when
\* some '/'-separated piece of the stripped string violates the grammar.
\* The code breaks it: a piece ending in a newline passes SEGMENT_PATTERN.
C14_ValidatedPath ==
  (pc = "parse_path" /\ validate /\ Strip(path_str, {"/"}) # <<>>) =>
    /\ parsed_path.ok =>
         \A i \in 1..Len(parsed_path.segments) : IsSegment(parsed_path.segments[i])
    /\ ~parsed_path.ok <=>
         \E i \in 1..Len(ExpectedSegments(path_str)) :
            ~IsSegment(ExpectedSegments(path_str)[i])

\* parse_path("a<LF>") returns the one segment "a<LF>".
C14_Witness ==
  /\ pc = "parse_path" /\ validate
  /\ path_str = <<"a", "\n">>
  /\ parsed_path.ok
  /\ parsed_path.segments = << <<"a", "\n">> >>

\* C15: no path constructor drops or alters a segment: parse_path with
\* validate=true and MonikerPath.from_string each reject the string or
\* return exactly the '/'-separated pieces of the stripped string, in order
\* and in the same number.  The code breaks it: from_string filters the
\* empty pieces out.
C15_NoSegmentDropped ==
  /\ (pc = "parse_path" /\ validate /\ parsed_path.ok) =>
       parsed_path.segments = ExpectedSegments(path_str)
  /\ pc = "from_string" => from_str = ExpectedSegments(path_str)

\* from_string("a//a") returns a/a, two segments for three pieces.
C15_Witness ==
  /\ pc = "from_string" /\ validate
  /\ path_str = <<"a", "/", "/", "a">>
  /\ ~parsed_path.ok
  /\ from_str = << <<"a">>, <<"a">> >>
  /\ Len(ExpectedSegments(path_str)) = 3

\* The query string of an input: what follows its first '?'.
QueryOf(s) == IF Find(s, "?") = 0 THEN <<>> ELSE From(s, Find(s, "?") + 1)

\* Its key=value fields in order: the non-empty pieces between '&'; the key
\* runs to the first '=', and a field without '=' has the blank value.
FieldsOf(q) == SelectSeq(Split(q, "&"), LAMBDA f : Len(f) > 0)

KeyOf(f) == IF Find(f, "=") = 0 THEN f ELSE SubSeq(f, 1, Find(f, "=") - 1)

ValueOf(f) == IF Find(f, "=") = 0 THEN <<>> ELSE SubSeq(f, Find(f, "=") + 1, Len(f))

\* Place of the first field with key k.
FirstWith(fields, k) ==
  CHOOSE i \in 1..Len(fields) :
    KeyOf(fields[i]) = k /\ \A j \in 1..(i-1) : KeyOf(fields[j]) # k

\* C16: query parameters keep the first value per key: the params of the
\* parsed Moniker hold each distinct key of the query string once, mapped to
\* the value of its first occurrence (blank values kept), the keys in order
\* of first occurrence.
C16_FirstValuePerKey ==
  (pc = "parsed" /\ parsed.ok) =>
    /\ \A i, j \in 1..Len(parsed.m.params) :
         i # j => parsed.m.params[i][1] # parsed.m.params[j][1]
    /\ {parsed.m.params[i][1] : i \in 1..Len(parsed.m.params)}
         = {KeyOf(FieldsOf(QueryOf(input))[i]) : i \in 1..Len(FieldsOf(QueryOf(input)))}
    /\ \A i \in 1..Len(parsed.m.params) :
         parsed.m.params[i][2] =
           ValueOf(FieldsOf(QueryOf(input))[
             FirstWith(FieldsOf(QueryOf(input)), parsed.m.params[i][1])])
    /\ \A i, j \in 1..Len(parsed.m.params) :
         i < j => FirstWith(FieldsOf(QueryOf(input)), parsed.m.params[i][1])
                  < FirstWith(FieldsOf(QueryOf(input)), parsed.m.params[j][1])

\* a?k&k=2 has the one parameter k, with the blank value of the first k.
C16_Witness ==
  /\ pc = "parsed" /\ parsed.ok
  /\ input = <<"a", "?", "k", "&", "k", "=", "2">>
  /\ parsed.m.params = << << <<"k">>, <<>> >> >>

\* C17: ancestors() of a path with N segments returns its N-1 proper
\* non-empty prefixes (lengths 1 to N-1) in increasing length, without the
\* empty root and without the path itself; x/y/z gives [x, x/y], a
\* single-segment or empty path gives the empty sequence.
C17_Ancestors ==
  last.op = "ancestors" =>
    /\ Len(last.paths) = (IF Len(cur) = 0 THEN 0 ELSE Len(cur) - 1)
    /\ \A i \in 1..Len(last.paths) :
         /\ Len(last.paths[i]) = i
         /\ \A k \in 1..i : last.paths[i][k] = cur[k]
    /\ cur = << <<"x">>, <<"y">>, <<"z">> >> =>
         last.paths = << << <<"x">> >>, << <<"x">>, <<"y">> >> >>
    /\ Len(cur) <= 1 => last.paths = <<>>

C17_Witness ==
  /\ last.op = "ancestors"
  /\ cur = << <<"x">>, <<"y">>, <<"z">> >>
  /\ last.paths = << << <<"x">> >>, << <<"x">>, <<"y">> >> >>

\* C18: is_ancestor_of is a strict partial order and is_descendant_of its
\* converse: never p.is_ancestor_of(p); never both p.is_ancestor_of(q) and
\* q.is_ancestor_of(p); p.is_ancestor_of(q) and q.is_ancestor_of(r) imply
\* p.is_ancestor_of(r); p.is_descendant_of(q) exactly when q.is_ancestor_of(p).
C18_StrictPartialOrder ==
  pc = "compared" =>
    /\ ~order.pp
    /\ ~(order.pq /\ order.qp)
    /\ (order.pq /\ order.qr) => order.pr
    /\ order.p_desc_q <=> order.qp

\* a is an ancestor of a/b, a/b of a/b/a, hence a of a/b/a.
C18_Witness ==
  /\ pc = "compared"
  /\ trio = [p |-> << <<"a">> >>, q |-> << <<"a">>, <<"b">> >>,
             r |-> << <<"a">>, <<"b">>, <<"a">> >>]
  /\ order.pq /\ order.qr /\ order.pr
  /\ ~order.qp /\ ~order.p_desc_q /\ ~order.pp

\* A slot is set when it holds a non-empty value.
IsSet(v) == v # None /\ Len(v[1]) > 0

FieldNames == {"accountable_owner", "data_specialist", "support_channel",
               "adop", "ads", "adal"}

SourceSlot ==
  [accountable_owner |-> "accountable_owner_source",
   data_specialist |-> "data_specialist_source",
   support_channel |-> "support_channel_source",
   adop |-> "adop_source", ads |-> "ads_source", adal |-> "adal_source"]

\* The path itself, then its prefixes from the longest down to length 1.
ChainOf(path) ==
  [i \in 1..(IF Len(path) = 0 THEN 1 ELSE Len(path)) |->
     SubSeq(path, 1, Len(path) - i + 1)]

\* The catalog has a node at path and the node sets slot f.
NodeSets(path, f) ==
  /\ path \in DOMAIN catalog
  /\ catalog[path] # None
  /\ IsSet(catalog[path][1][f])

\* The places of target's chain whose node sets f, and the nearest of them.
SettersOf(f) ==
  {i \in 1..Len(ChainOf(target)) : NodeSets(ChainOf(target)[i], f)}

NearestSetter(f) ==
  ChainOf(target)[CHOOSE i \in SettersOf(f) : \A j \in SettersOf(f) : i <= j]

\* C19: ownership resolution with provenance: for each of the six fields
\* independently, resolving at a path yields the value set at the nearest
\* node from the path itself up through its ancestors, with the path of
\* that node; a field set nowhere in the chain resolves to absent with no
\* provenance.  With accountable_owner A at root and only data_specialist B
\* at root/child, resolving at root/child gives A from root and B from
\* root/child.
C19_ResolvedWithProvenance ==
  pc = "resolved" =>
    /\ \A f \in FieldNames :
         IF SettersOf(f) = {}
         THEN resolved[f] = None /\ resolved[SourceSlot[f]] = None
         ELSE /\ resolved[f] = catalog[NearestSetter(f)][1][f]
              /\ resolved[SourceSlot[f]] = Some(Join(NearestSetter(f), "/"))
    /\ (/\ target = <<SegRoot, SegChild>>
        /\ catalog[<<SegRoot>>] =
             Some(Ownership(Some(<<"A">>), None, None, None, None, None))
        /\ catalog[<<SegRoot, SegChild>>] =
             Some(Ownership(None, Some(<<"B">>), None, None, None, None)))
       => /\ resolved.accountable_owner = Some(<<"A">>)
          /\ resolved.accountable_owner_source = Some(SegRoot)
          /\ resolved.data_specialist = Some(<<"B">>)
          /\ resolved.data_specialist_source = Some(SegRoot \o <<"/">> \o SegChild)

C19_Witness ==
  /\ pc = "resolved"
  /\ target = <<SegRoot, SegChild>>
  /\ catalog[<<SegRoot>>] =
       Some(Ownership(Some(<<"A">>), None, None, None, None, None))
  /\ catalog[<<SegRoot, SegChild>>] =
       Some(Ownership(None, Some(<<"B">>), None, None, None, None))
  /\ resolved.accountable_owner = Some(<<"A">>)
  /\ resolved.accountable_owner_source = Some(SegRoot)
  /\ resolved.data_specialist = Some(<<"B">>)
  /\ resolved.data_specialist_source = Some(SegRoot \o <<"/">> \o SegChild)
  /\ resolved.adal = None /\ resolved.adal_source = None

\* C20: merge_with_parent never overrides a set slot: for each of the six
\* fields the merged value is the child's when the child has it set (a
\* non-empty value) and the parent's otherwise; folding merge_with_parent
\* from a node up its ancestor chain gives each field the value of the
\* nearest node that sets it; the two inputs are left as they were.
C20_MergeKeepsSetSlots ==
  /\ pc = "merged" =>
       /\ \A f \in FieldNames :
            merged[f] = (IF IsSet(pair.self[f]) THEN pair.self[f] ELSE pair.parent[f])
       /\ pair.self = catalog[target][1]
       /\ pair.parent = catalog[SubSeq(target, 1, Len(target) - 1)][1]
  /\ pc = "folded" =>
       \A f \in FieldNames :
         IF SettersOf(f) = {} THEN ~IsSet(folded[f])
         ELSE folded[f] = catalog[NearestSetter(f)][1][f]

\* The child's B is kept over the parent's A, its unset adal takes the
\* parent's C.
C20_Witness ==
  /\ pc = "merged"
  /\ pair.self = Ownership(Some(<<"B">>), None, None, None, None, None)
  /\ pair.parent = Ownership(Some(<<"A">>), Some(<<"B">>), None, None, None, Some(<<"C">>))
  /\ merged = Ownership(Some(<<"B">>), Some(<<"B">>), None, None, None, Some(<<"C">>))

\* ---- the dialects ---------------------------------------------------------------

EndsWith(s, p) ==
  Len(p) <= Len(s) /\ SubSeq(s, Len(s) - Len(p) + 1, Len(s)) = p

\* s is pre, something, post
Wrapped(s, pre, post) ==
  Len(pre) + Len(post) <= Len(s) /\ StartsWith(s, pre) /\ EndsWith(s, post)

Middle(s, pre, post) == SubSeq(s, Len(pre) + 1, Len(s) - Len(post))

\* The date an ISO string YYYY-MM-DD names.
IsoToDate(s) ==
  Date(ParseInt(Slice(s, 0, 4)), ParseInt(Slice(s, 5, 7)),
       ParseInt(Slice(s, 8, 10)))

Keywords == {<<"Y", "E", "A", "R">>, <<"M", "O", "N", "T", "H">>, <<"W", "E", "E", "K">>, <<"D", "A", "Y">>}

\* The SQL text moves the current date by an amount that is a minus sign
\* and a plain number.
SnowflakeGoesBack(s) ==
  \E kw \in Keywords :
    /\ Wrapped(s, <<"D", "A", "T", "E", "A", "D", "D", "(", "'">> \o kw \o <<"'", ",", " ", "-">>, <<",", " ", "C", "U", "R", "R", "E", "N", "T", "_", "D", "A", "T", "E", "(", ")", ")">>)
    /\ IsInt(Middle(s, <<"D", "A", "T", "E", "A", "D", "D", "(", "'">> \o kw \o <<"'", ",", " ", "-">>, <<",", " ", "C", "U", "R", "R", "E", "N", "T", "_", "D", "A", "T", "E", "(", ")", ")">>))

OracleGoesBack(s) ==
  \/ /\ Wrapped(s, <<"A", "D", "D", "_", "M", "O", "N", "T", "H", "S", "(", "S", "Y", "S", "D", "A", "T", "E", ",", " ", "-">>, <<")">>)
     /\ IsInt(Middle(s, <<"A", "D", "D", "_", "M", "O", "N", "T", "H", "S", "(", "S", "Y", "S", "D", "A", "T", "E", ",", " ", "-">>, <<")">>))
  \/ /\ Wrapped(s, <<"S", "Y", "S", "D", "A", "T", "E", " ", "-", " ">>, <<>>)
     /\ IsInt(Middle(s, <<"S", "Y", "S", "D", "A", "T", "E", " ", "-", " ">>, <<>>))

\* C21: for every dialect, value and unit, lookback_start(value, unit)
\* subtracts from the current date: the SQL dialects write the current date
\* moved back by a plain amount, and the REST date is never later than the
\* day of the call.
C21_SubtractsOnly ==
  pc = "called" /\ call.op = "lookback_start" =>
    IF call.dialect = "rest"
    THEN first.res.ok =>
           ToOrdinal(IsoToDate(first.res.str)) <= ToOrdinal(first.at)
    ELSE IF call.dialect = "snowflake"
    THEN first.res.ok /\ SnowflakeGoesBack(first.res.str)
    ELSE first.res.ok /\ OracleGoesBack(first.res.str)

\* RestDialect().lookback_start(-1, "D") on 2026-01-01 is the day after.
C21_Witness ==
  /\ pc = "called"
  /\ call = CallOf("rest", "lookback_start", <<>>, -1, <<"D">>, <<>>)
  /\ first.at = Date(2026, 1, 1)
  /\ first.res = Returned(<<"2", "0", "2", "6", "-", "0", "1", "-", "0", "2">>)

\* OracleDialect().lookback_start(-1, "D") adds a day.
C21_WitnessOracle ==
  /\ pc = "called"
  /\ call = CallOf("oracle", "lookback_start", <<>>, -1, <<"D">>, <<>>)
  /\ first.res = Returned(<<"S", "Y", "S", "D", "A", "T", "E", " ", "-", " ", "-", "1">>)

\* C22: for each dialect, every integer magnitude and every unit,
\* lookback_start and date_filter return a string and do not raise.
C22_NeverRaises ==
  pc = "called" /\ call.op \in {"lookback_start", "date_filter"} =>
    first.res.ok

\* RestDialect().lookback_start(4000000, "D") leaves the calendar.
C22_Witness ==
  /\ pc = "called"
  /\ call = CallOf("rest", "lookback_start", <<>>, 4000000, <<"D">>, <<>>)
  /\ first.res = Raised("OverflowError")

\* RestDialect().date_filter("dt", 2026, "Y") asks for the year 0.
C22_WitnessYears ==
  /\ pc = "called"
  /\ call = CallOf("rest", "date_filter", <<"d", "t">>, 2026, <<"Y">>, <<>>)
  /\ first.at = Date(2026, 3, 31)
  /\ first.res = Raised("ValueError")

\* The operations of RestDialect that read date.today().
ClockOps == {"current_date", "lookback_start", "date_filter"}

\* C23 as stated: two calls with equal arguments return equal results,
\* whenever they are made.
C23_Original == pc = "called_twice" => second.res = first.res

\* C23: two calls with equal arguments return equal results for every
\* operation of the SQL dialects and for date_literal, no_filter and
\* latest_subquery_hint of the REST dialect, whenever they are made; the
\* REST current_date, lookback_start and date_filter agree when both calls
\* are made on the same day, and the REST current_date differs from one day
\* to another.
C23_PureExceptRestClock ==
  pc = "called_twice" =>
    /\ (call.dialect # "rest" \/ call.op \notin ClockOps
        \/ second.at = first.at) => second.res = first.res
    /\ (call.dialect = "rest" /\ call.op = "current_date"
        /\ second.at # first.at) => second.res # first.res

\* RestDialect().current_date() on two days.
C23_Witness ==
  /\ pc = "called_twice"
  /\ call = CallOf("rest", "current_date", <<>>, 0, <<>>, <<>>)
  /\ first = [at |-> Date(2024, 2, 29), res |-> Returned(<<"2", "0", "2", "4", "-", "0", "2", "-", "2", "9">>)]
  /\ second = [at |-> Date(2026, 1, 1), res |-> Returned(<<"2", "0", "2", "6", "-", "0", "1", "-", "0", "1">>)]

\* SnowflakeDialect().lookback_start(3, "M") on two days.
C23_WitnessSql ==
  /\ pc = "called_twice"
  /\ call = CallOf("snowflake", "lookback_start", <<>>, 3, <<"M">>, <<>>)
  /\ first.at # second.at
  /\ first.res = second.res

\* The unit keyword of the claim, a unit read as written.
KeywordAsWritten(unit) ==
  IF unit = <<"Y">> THEN <<"Y", "E", "A", "R">>
  ELSE IF unit = <<"M">> THEN <<"M", "O", "N", "T", "H">>
  ELSE IF unit = <<"W">> THEN <<"W", "E", "E", "K">>
  ELSE <<"D", "A", "Y">>

\* The unit keyword, a unit read in either case.
KeywordAnyCase(unit) ==
  IF unit \in {<<"Y">>, <<"y">>} THEN <<"Y", "E", "A", "R">>
  ELSE IF unit \in {<<"M">>, <<"m">>} THEN <<"M", "O", "N", "T", "H">>
  ELSE IF unit \in {<<"W">>, <<"w">>} THEN <<"W", "E", "E", "K">>
  ELSE <<"D", "A", "Y">>

DateAdd(keyword, value) ==
  <<"D", "A", "T", "E", "A", "D", "D", "(", "'">> \o keyword \o <<"'", ",", " ", "-">> \o IntToStr(value)
  \o <<",", " ", "C", "U", "R", "R", "E", "N", "T", "_", "D", "A", "T", "E", "(", ")", ")">>

\* C24 as stated: the keyword is YEAR for Y, MONTH for M, WEEK for W, DAY
\* for D and DAY for any other unit.
C24_Original ==
  pc = "called" /\ call.dialect = "snowflake" /\ call.op = "lookback_start"
  => first.res = Returned(DateAdd(KeywordAsWritten(call.unit), call.value))

\* C24: Snowflake lookback_start(value, unit) returns one DATEADD call on
\* CURRENT_DATE() with a minus sign before the value and the keyword YEAR
\* for Y or y, MONTH for M or m, WEEK for W or w and DAY for D, d and any
\* other unit; lookback_start(3, "M") is DATEADD('MONTH', -3, CURRENT_DATE()).
C24_SnowflakeDateAdd ==
  pc = "called" /\ call.dialect = "snowflake" /\ call.op = "lookback_start"
  => /\ first.res = Returned(DateAdd(KeywordAnyCase(call.unit), call.value))
     /\ (call.value = 3 /\ call.unit = <<"M">>
         => first.res.str = <<"D", "A", "T", "E", "A", "D", "D", "(", "'", "M", "O", "N", "T", "H", "'", ",", " ", "-", "3", ",", " ", "C", "U", "R", "R", "E", "N", "T", "_", "D", "A", "T", "E", "(", ")", ")">>)

\* SnowflakeDialect().lookback_start(3, "m") is a MONTH call.
C24_Witness ==
  /\ pc = "called"
  /\ call = CallOf("snowflake", "lookback_start", <<>>, 3, <<"m">>, <<>>)
  /\ first.res = Returned(<<"D", "A", "T", "E", "A", "D", "D", "(", "'", "M", "O", "N", "T", "H", "'", ",", " ", "-", "3", ",", " ", "C", "U", "R", "R", "E", "N", "T", "_", "D", "A", "T", "E", "(", ")", ")">>)

\* SnowflakeDialect().lookback_start(2, "X") falls back to DAY.
C24_WitnessUnknown ==
  /\ pc = "called"
  /\ call = CallOf("snowflake", "lookback_start", <<>>, 2, <<"X">>, <<>>)
  /\ first.res = Returned(<<"D", "A", "T", "E", "A", "D", "D", "(", "'", "D", "A", "Y", "'", ",", " ", "-", "2", ",", " ", "C", "U", "R", "R", "E", "N", "T", "_", "D", "A", "T", "E", "(", ")", ")">>)

AddMonths(months) ==
  <<"A", "D", "D", "_", "M", "O", "N", "T", "H", "S", "(", "S", "Y", "S", "D", "A", "T", "E", ",", " ", "-">> \o IntToStr(months) \o <<")">>

SysdateMinus(days) == <<"S", "Y", "S", "D", "A", "T", "E", " ", "-", " ">> \o IntToStr(days)

\* C25 as stated: the units are Y, M, W, and D or any other unit.
C25_Original ==
  pc = "called" /\ call.dialect = "oracle" /\ call.op = "lookback_start"
  => first.res = Returned(
       IF call.unit = <<"Y">> THEN AddMonths(12 * call.value)
       ELSE IF call.unit = <<"M">> THEN AddMonths(call.value)
       ELSE IF call.unit = <<"W">> THEN SysdateMinus(7 * call.value)
       ELSE SysdateMinus(call.value))

\* C25: Oracle lookback_start reads the unit in either case: Y gives
\* ADD_MONTHS(SYSDATE, -(12*value)), the result for M with 12*value; M gives
\* ADD_MONTHS(SYSDATE, -value); W gives SYSDATE - (7*value), the result for D
\* with 7*value; D or any other unit gives SYSDATE - value;
\* lookback_start(1, "Y") is ADD_MONTHS(SYSDATE, -12).
C25_OracleUnits ==
  pc = "called" /\ call.dialect = "oracle" /\ call.op = "lookback_start"
  => /\ first.res = Returned(
          IF call.unit \in {<<"Y">>, <<"y">>} THEN AddMonths(12 * call.value)
          ELSE IF call.unit \in {<<"M">>, <<"m">>} THEN AddMonths(call.value)
          ELSE IF call.unit \in {<<"W">>, <<"w">>}
          THEN SysdateMinus(7 * call.value)
          ELSE SysdateMinus(call.value))
     /\ (call.unit \in {<<"Y">>, <<"y">>}
         => first.res = OracleDialect_lookback_start(12 * call.value, <<"M">>))
     /\ (call.unit \in {<<"W">>, <<"w">>}
         => first.res = OracleDialect_lookback_start(7 * call.value, <<"D">>))
     /\ (call.value = 1 /\ call.unit = <<"Y">>
         => first.res.str = <<"A", "D", "D", "_", "M", "O", "N", "T", "H", "S", "(", "S", "Y", "S", "D", "A", "T", "E", ",", " ", "-", "1", "2", ")">>)

\* OracleDialect().lookback_start(1, "y") is twelve months back.
C25_Witness ==
  /\ pc = "called"
  /\ call = CallOf("oracle", "lookback_start", <<>>, 1, <<"y">>, <<>>)
  /\ first.res = Returned(<<"A", "D", "D", "_", "M", "O", "N", "T", "H", "S", "(", "S", "Y", "S", "D", "A", "T", "E", ",", " ", "-", "1", "2", ")">>)

\* OracleDialect().lookback_start(2, "W") is fourteen days back.
C25_WitnessWeeks ==
  /\ pc = "called"
  /\ call = CallOf("oracle", "lookback_start", <<>>, 2, <<"W">>, <<>>)
  /\ first.res = Returned(<<"S", "Y", "S", "D", "A", "T", "E", " ", "-", " ", "1", "4">>)

\* The ISO date days before today, when the calendar holds it.
DaysBack(today, days, res) ==
  /\ ToOrdinal(today) - days >= 1
  /\ ToOrdinal(today) - days <= MAXORDINAL
  /\ res = Returned(IsoFormat(FromOrdinal(ToOrdinal(today) - days)))

\* The day of today in the month counted months back from today's, cut to
\* that month's length.
MonthsBackTo(today, count, res) ==
  /\ count >= 12 * MINYEAR
  /\ count < 12 * (MAXYEAR + 1)
  /\ res = Returned(IsoFormat(Date(count \div 12, (count % 12) + 1,
            Min(today.day, DaysInMonth(count \div 12, (count % 12) + 1)))))

MonthsBack(today, months, res) ==
  MonthsBackTo(today, 12 * today.year + (today.month - 1) - months, res)

\* C26: for a fixed today and a non-negative value, REST lookback_start
\* returns the ISO date of today minus 7*value days for unit W, of today
\* minus value days for D or any unrecognized unit, and of the calendar-aware
\* subtraction of value years or months for Y and M; date_filter returns the
\* same; lookback_start(2, "W") is today minus 14 days.
C26_RestComputedDate ==
  pc = "called" /\ call.dialect = "rest" /\ call.value >= 0
  /\ call.op \in {"lookback_start", "date_filter"}
  => IF call.unit = <<"Y">> THEN MonthsBack(first.at, 12 * call.value, first.res)
     ELSE IF call.unit = <<"M">> THEN MonthsBack(first.at, call.value, first.res)
     ELSE IF call.unit = <<"W">> THEN DaysBack(first.at, 7 * call.value, first.res)
     ELSE DaysBack(first.at, call.value, first.res)

\* The same for the units in either case and the values that stay inside
\* the calendar.
C26_InsideCalendar ==
  pc = "called" /\ call.dialect = "rest" /\ call.value >= 0
  /\ call.value <= 13
  /\ call.op \in {"lookback_start", "date_filter"}
  => IF call.unit \in {<<"Y">>, <<"y">>}
     THEN MonthsBack(first.at, 12 * call.value, first.res)
     ELSE IF call.unit \in {<<"M">>, <<"m">>}
     THEN MonthsBack(first.at, call.value, first.res)
     ELSE IF call.unit \in {<<"W">>, <<"w">>}
     THEN DaysBack(first.at, 7 * call.value, first.res)
     ELSE DaysBack(first.at, call.value, first.res)

\* RestDialect().lookback_start(4000000, "W") raises.
C26_Witness ==
  /\ pc = "called"
  /\ call = CallOf("rest", "lookback_start", <<>>, 4000000, <<"W">>, <<>>)
  /\ first.res = Raised("OverflowError")

\* RestDialect().lookback_start(2, "W") on 2026-01-01 is 2025-12-18, and one
\* month before 2026-03-31 is 2026-02-28.
C26_WitnessWeeks ==
  /\ pc = "called"
  /\ call = CallOf("rest", "lookback_start", <<>>, 2, <<"W">>, <<>>)
  /\ first = [at |-> Date(2026, 1, 1), res |-> Returned(<<"2", "0", "2", "5", "-", "1", "2", "-", "1", "8">>)]

C26_WitnessMonthEnd ==
  /\ pc = "called"
  /\ call = CallOf("rest", "date_filter", <<"d", "t">>, 1, <<"M">>, <<>>)
  /\ first = [at |-> Date(2026, 3, 31), res |-> Returned(<<"2", "0", "2", "6", "-", "0", "2", "-", "2", "8">>)]

\* C27: the access namespace cannot be created by serialization: for every
\* Moniker m with no namespace that parse_moniker returns with validate=true
\* or build_moniker returns, parse_moniker(str(m)) succeeds and has no
\* namespace.  The code breaks it: "/a@2" parses to path a, version 2, whose
\* string moniker://a@2 parses to namespace a.
C27_NoNamespaceFromSerialization ==
  /\ (pc = "reparsed" /\ validate /\ parsed.ok /\ parsed.m.namespace = None)
       => (reparsed.ok /\ reparsed.m.namespace = None)
  /\ (pc = "reparsed" /\ built.ok /\ built.m.namespace = None)
       => (reparsed.ok /\ reparsed.m.namespace = None)

C27_Witness ==
  /\ pc = "reparsed" /\ validate
  /\ input = <<"/", "a", "@", "2">>
  /\ parsed.ok /\ parsed.m.namespace = None
  /\ parsed.m.version = Some(<<"2">>)
  /\ text = SchemePrefix \o <<"a", "@", "2">>
  /\ reparsed.ok
  /\ reparsed.m.namespace = Some(<<"a">>)

\* build_moniker("a", version="v") has no namespace; its string gets one.
C27_WitnessBuilt ==
  /\ pc = "reparsed"
  /\ args = [path |-> <<"a">>, namespace |-> None, version |-> Some(<<"v">>),
             revision |-> None, params |-> NoParams]
  /\ built.ok /\ built.m.namespace = None
  /\ reparsed.ok
  /\ reparsed.m.namespace = Some(<<"a">>)

\* C28: the scheme prefix is transparent: for every string s without "://",
\* parse_moniker("moniker://" + s) and parse_moniker(s) under the same
\* validate flag either both raise a ParseError or both return equal
\* Monikers.  The code breaks it: "a\na" is refused, and "moniker://a\na"
\* is read as the path aa.
C28_SchemeTransparent ==
  pc = "prefixed" =>
    \/ IsParseError(parsed) /\ IsParseError(prefixed)
    \/ parsed.ok /\ prefixed.ok /\ MonikerEq(parsed.m, prefixed.m)

C28_Witness ==
  /\ pc = "prefixed" /\ validate
  /\ input = <<"a", "\n", "a">>
  /\ ~parsed.ok /\ parsed.err = "InvalidSegment"
  /\ prefixed.ok
  /\ prefixed.m.path = << <<"a", "a">> >>

\* parse_moniker("") raises and parse_moniker("moniker://") is the root.
C28_WitnessEmpty ==
  /\ pc = "prefixed"
  /\ input = <<>>
  /\ IsParseError(parsed)
  /\ prefixed.ok /\ prefixed.m.path = root

\* parse_moniker("a/v2") and parse_moniker("moniker://a/v2") agree.
C28_WitnessSame ==
  /\ pc = "prefixed" /\ validate
  /\ input = <<"a", "/", "v", "2">>
  /\ parsed.ok /\ parsed.m.revision = Some(2) /\ prefixed = parsed

\* C29: is_ancestor_of agrees with ancestors(): for all paths p and q,
\* p.is_ancestor_of(q) is true if and only if p is an element of
\* q.ancestors().  The code breaks it for the root path.
C29_AncestorIffListed ==
  pc = "compared" =>
    (order.pq <=>
       \E i \in 1..Len(order.q_ancestors) : order.q_ancestors[i] = trio.p)

\* root.is_ancestor_of(a) is true and a.ancestors() is empty.
C29_Witness ==
  /\ pc = "compared"
  /\ trio.p = root
  /\ trio.q = << <<"a">> >>
  /\ order.pq
  /\ order.q_ancestors = <<>>

\* a.is_ancestor_of(a/b) is true and a/b.ancestors() is [a].
C29_WitnessListed ==
  /\ pc = "compared"
  /\ trio.p = << <<"a">> >>
  /\ trio.q = << <<"a">>, <<"b">> >>
  /\ order.pq
  /\ order.q_ancestors = << << <<"a">> >> >>

\* YYYYMMDD rewritten as YYYY-MM-DD
Dashed(s) ==
  SubSeq(s, 1, 4) \o <<"-">> \o SubSeq(s, 5, 6) \o <<"-">> \o SubSeq(s, 7, 8)

\* C30: for every Moniker that parse_moniker returns with validate=true and
\* whose version_date is not None, date_literal(version_date) of the
\* Snowflake, Oracle and REST dialects each return a string, and the REST
\* string is the eight digits rewritten as YYYY-MM-DD.  The code breaks it:
\* a/b@20261301 has the version_date 20261301, which is no calendar date.
C30_DateVersionUsable ==
  pc = "dated" /\ validate =>
    /\ dated.snowflake.ok /\ dated.oracle.ok /\ dated.rest.ok
    /\ dated.rest.str = Dashed(dated.version_date[1])

C30_Witness ==
  /\ pc = "dated" /\ validate
  /\ input = <<"a", "/", "b">> \o <<"@">> \o <<"2", "0", "2", "6", "1", "3", "0", "1">>
  /\ dated.version_date = Some(<<"2", "0", "2", "6", "1", "3", "0", "1">>)
  /\ dated.snowflake = Returned(<<"T", "O", "_", "D", "A", "T", "E", "(", "'", "2", "0", "2", "6", "1", "3", "0", "1", "'", ",", " ", "'", "Y", "Y", "Y", "Y", "M", "M", "D", "D", "'", ")">>)
  /\ dated.oracle.ok
  /\ dated.rest = Raised("ValueError")

\* a/b@20240229 is a date of the calendar.
C30_WitnessLeapDay ==
  /\ pc = "dated" /\ validate
  /\ dated.version_date = Some(<<"2", "0", "2", "4", "0", "2", "2", "9">>)
  /\ dated.rest = Returned(<<"2", "0", "2", "4", "-", "0", "2", "-", "2", "9">>)

\* The same for the version dates that are dates of the calendar.
C30_CalendarDates ==
  pc = "dated" /\ validate
  /\ MakeDate(ParseInt(SubSeq(dated.version_date[1], 1, 4)),
              ParseInt(SubSeq(dated.version_date[1], 5, 6)),
              ParseInt(SubSeq(dated.version_date[1], 7, 8))).ok =>
    /\ dated.snowflake.ok /\ dated.oracle.ok /\ dated.rest.ok
    /\ dated.rest.str = Dashed(dated.version_date[1])

====
